---- MODULE Spec2Model ----
(***************************************************************************)
(* Join-request auto-moderation of serejaris/telegram-bot-mvp:             *)
(*   app/models.py       the join_requests table and its three queries     *)
(*   app/bot/handlers.py the reconciliation pass, the JobQueue job with    *)
(*                       its asyncio.Lock, the join-request handler and    *)
(*                       the error classifier                              *)
(*   scripts/clean_requests.py  the manual run of the same pass            *)
(* One action is one stretch of code between two await points: asyncio     *)
(* runs everything between two awaits without interleaving.                *)
(***************************************************************************)
EXTENDS Integers, Sequences, FiniteSets, TLC

VARIABLES
    cfg,            \* Config read once from the environment (get_config)
    join_requests,  \* table join_requests: id -> row
    seq,            \* last value handed out by the BIGSERIAL of join_requests.id
    users,          \* ids of the rows of table users
    chats,          \* ids of the rows of table chats
    lock,           \* _clean_join_requests_lock.locked()
    pc,             \* where each invocation stands
    pending,        \* local `pending` of a pass: the rows it fetched
    idx,            \* position of the for loop in `pending` (1-based)
    declined,       \* local `declined` of a pass
    err_msg,        \* local `err_msg` of the current iteration
    called,         \* decline calls the running pass has issued: <<chat_id, user_id>>
    wrote,          \* audit lines the running pass has appended
    last,           \* how the invocation that ended last did end
    log_dir,        \* the parent directory of the log file exists
    log_file,       \* the audit log file: whether it exists, and its lines
    passes,         \* passes started so far
    fn_text,        \* the argument of a function applied on its own
    fn_result,      \* its result; NotYet before the application
    conns           \* connections of the pool each invocation holds

sysVars == <<cfg, join_requests, seq, users, chats, lock, pc, pending, idx, declined,
             err_msg, called, wrote, last, log_dir, log_file, passes>>
funVars == <<fn_text, fn_result>>
vars == <<sysVars, funVars, conns>>

----------------------------------------------------------------------------
(* Bounds of the model *)

\* values the id sequence may hand out, hence upserts per behaviour
MaxSeq == 2
\* passes started per behaviour
MaxPasses == 2
\* largest batch limit the configuration may hold
MaxLimit == 2

\* rows of a table the service starts on, where a behaviour starts on a
\* database that is not empty
MaxRows == 3

----------------------------------------------------------------------------
(* Values *)

None == "None"

\* fresh_account_id_threshold, in units of 10^8 (7_000_000_000)
FRESH_ACCOUNT_ID_THRESHOLD == 70

\* the chat the service moderates, and another chat the bot is a member of
VibecoderChat == "vibecoder"
OtherChat == "other"
ChatIds == {VibecoderChat, OtherChat}

\* account ids in units of 10^8: one below the threshold, the threshold, one above
UserIds == {60, 70, 71}

RequestDates == {1, 2}

\* the invocations of the job that may be alive at once; a tick takes the first
\* one that is free
Jobs == {"job1", "job2"}
JobOrder == [j \in Jobs |-> IF j = "job1" THEN 1 ELSE 2]
Script == "script"
Procs == Jobs \cup {Script}

Statuses == {"pending", "declined", "expired"}

----------------------------------------------------------------------------
(* Text.  A Python str is the sequence of its characters; the strings the   *)
(* model handles are spelled out once, so that lower() and `in` work on the *)
(* characters as the code does.                                             *)

Chars ==
    ("chat_join_request_not_found" :> <<"c", "h", "a", "t", "_", "j", "o", "i", "n", "_", "r", "e", "q", "u", "e", "s", "t", "_", "n", "o", "t", "_", "f", "o", "u", "n", "d">>) @@
    ("join request not found" :> <<"j", "o", "i", "n", " ", "r", "e", "q", "u", "e", "s", "t", " ", "n", "o", "t", " ", "f", "o", "u", "n", "d">>) @@
    ("user_already_participant" :> <<"u", "s", "e", "r", "_", "a", "l", "r", "e", "a", "d", "y", "_", "p", "a", "r", "t", "i", "c", "i", "p", "a", "n", "t">>) @@
    ("user already participant" :> <<"u", "s", "e", "r", " ", "a", "l", "r", "e", "a", "d", "y", " ", "p", "a", "r", "t", "i", "c", "i", "p", "a", "n", "t">>) @@
    ("user is already a participant" :> <<"u", "s", "e", "r", " ", "i", "s", " ", "a", "l", "r", "e", "a", "d", "y", " ", "a", " ", "p", "a", "r", "t", "i", "c", "i", "p", "a", "n", "t">>) @@
    ("user_not_found" :> <<"u", "s", "e", "r", "_", "n", "o", "t", "_", "f", "o", "u", "n", "d">>) @@
    ("request not found" :> <<"r", "e", "q", "u", "e", "s", "t", " ", "n", "o", "t", " ", "f", "o", "u", "n", "d">>) @@
    ("already participant" :> <<"a", "l", "r", "e", "a", "d", "y", " ", "p", "a", "r", "t", "i", "c", "i", "p", "a", "n", "t">>) @@
    ("user not found" :> <<"u", "s", "e", "r", " ", "n", "o", "t", " ", "f", "o", "u", "n", "d">>) @@
    ("User_already_participant" :> <<"U", "s", "e", "r", "_", "a", "l", "r", "e", "a", "d", "y", "_", "p", "a", "r", "t", "i", "c", "i", "p", "a", "n", "t">>) @@
    ("Chat not found" :> <<"C", "h", "a", "t", " ", "n", "o", "t", " ", "f", "o", "u", "n", "d">>) @@
    ("USER_NOT_FOUND" :> <<"U", "S", "E", "R", "_", "N", "O", "T", "_", "F", "O", "U", "N", "D">>) @@
    ("Timed out" :> <<"T", "i", "m", "e", "d", " ", "o", "u", "t">>) @@
    ("Connection reset" :> <<"C", "o", "n", "n", "e", "c", "t", "i", "o", "n", " ", "r", "e", "s", "e", "t">>) @@
    ("connection is bad" :> <<"c", "o", "n", "n", "e", "c", "t", "i", "o", "n", " ", "i", "s", " ", "b", "a", "d">>) @@
    ("Bad Request: " :> <<"B", "a", "d", " ", "R", "e", "q", "u", "e", "s", "t", ":", " ">>) @@
    ("" :> <<>>) @@
    (" (400)" :> <<" ", "(", "4", "0", "0", ")">>) @@
    ("BadRequest" :> <<"B", "a", "d", "R", "e", "q", "u", "e", "s", "t">>) @@
    ("Forbidden" :> <<"F", "o", "r", "b", "i", "d", "d", "e", "n">>) @@
    ("TimedOut" :> <<"T", "i", "m", "e", "d", "O", "u", "t">>) @@
    ("ConnectionError" :> <<"C", "o", "n", "n", "e", "c", "t", "i", "o", "n", "E", "r", "r", "o", "r">>) @@
    ("OperationalError" :> <<"O", "p", "e", "r", "a", "t", "i", "o", "n", "a", "l", "E", "r", "r", "o", "r">>)

LowerOf ==
    ("A" :> "a") @@ ("B" :> "b") @@ ("C" :> "c") @@ ("D" :> "d") @@ ("E" :> "e") @@ ("F" :> "f") @@
    ("G" :> "g") @@ ("H" :> "h") @@ ("I" :> "i") @@ ("J" :> "j") @@ ("K" :> "k") @@ ("L" :> "l") @@
    ("M" :> "m") @@ ("N" :> "n") @@ ("O" :> "o") @@ ("P" :> "p") @@ ("Q" :> "q") @@ ("R" :> "r") @@
    ("S" :> "s") @@ ("T" :> "t") @@ ("U" :> "u") @@ ("V" :> "v") @@ ("W" :> "w") @@ ("X" :> "x") @@
    ("Y" :> "y") @@ ("Z" :> "z")

\* str.lower() on one character
LowerChar(c) == IF c \in DOMAIN LowerOf THEN LowerOf[c] ELSE c

\* str.lower()
Lower(t) == [i \in 1..Len(t) |-> LowerChar(t[i])]

\* `needle in t` on Python strings
IsSubstring(needle, t) ==
    \E i \in 1..(Len(t) - Len(needle) + 1) : SubSeq(t, i, i + Len(needle) - 1) = needle

\* the tuple of needles of _is_expired_join_request_error
Needles ==
    { Chars["chat_join_request_not_found"],
      Chars["join request not found"],
      Chars["user_already_participant"],
      Chars["user already participant"],
      Chars["user is already a participant"],
      Chars["user_not_found"] }

\* a str argument that is None: no character sequence has this shape
NoText == <<None>>

\* _is_expired_join_request_error(text)
is_expired_join_request_error(text) ==
    LET t == Lower(IF text = NoText THEN <<>> ELSE text)
    IN  \E needle \in Needles : IsSubstring(needle, t)

----------------------------------------------------------------------------
(* The table join_requests and its queries (app/models.py) *)

\* the set of elements of a sequence
Range(s) == {s[i] : i \in 1..Len(s)}

Min(a, b) == IF a <= b THEN a ELSE b

\* the row of a (user_id, chat_id) pair: UNIQUE (user_id, chat_id) allows one
RowIdOf(jr, user_id, chat_id) ==
    {id \in DOMAIN jr : jr[id].user_id = user_id /\ jr[id].chat_id = chat_id}

\* mutant: ON CONFLICT refreshes the metadata and leaves the status
upsert_keeps_status(jr, new_id, user_id, chat_id, profile, request_date) ==
    LET hit == RowIdOf(jr, user_id, chat_id)
    IN  IF hit = {}
        THEN jr @@ (new_id :> [id |-> new_id, user_id |-> user_id, chat_id |-> chat_id,
                               username |-> profile.username,
                               first_name |-> profile.first_name, bio |-> profile.bio,
                               request_date |-> request_date, status |-> "pending"])
        ELSE [id \in DOMAIN jr |->
                IF id \in hit
                THEN [jr[id] EXCEPT !.username = profile.username,
                                    !.first_name = profile.first_name,
                                    !.bio = profile.bio,
                                    !.request_date = request_date]
                ELSE jr[id]]

\* INSERT INTO join_requests ... ON CONFLICT (user_id, chat_id) DO UPDATE SET ...:
\* the table after the statement; new_id is the value the sequence hands out
upsert_join_request(jr, new_id, user_id, chat_id, profile, request_date) ==
    LET hit == RowIdOf(jr, user_id, chat_id)
    IN  IF hit = {}
        THEN jr @@ (new_id :> [id |-> new_id, user_id |-> user_id, chat_id |-> chat_id,
                               username |-> profile.username,
                               first_name |-> profile.first_name, bio |-> profile.bio,
                               request_date |-> request_date, status |-> "pending"])
        ELSE [id \in DOMAIN jr |->
                IF id \in hit
                THEN [jr[id] EXCEPT !.username = profile.username,
                                    !.first_name = profile.first_name,
                                    !.bio = profile.bio,
                                    !.request_date = request_date,
                                    !.status = "pending"]
                ELSE jr[id]]

\* RETURNING id of the same statement
upsert_returning(jr, new_id, user_id, chat_id) ==
    LET hit == RowIdOf(jr, user_id, chat_id)
    IN  IF hit = {} THEN new_id ELSE CHOOSE id \in hit : TRUE

\* mutant: the WHERE clause without `AND status = 'pending'`
where_any_status(jr, chat_id, min_user_id) ==
    {id \in DOMAIN jr : /\ jr[id].chat_id = chat_id
                        /\ jr[id].user_id >= min_user_id}

\* mutant: the WHERE clause with `status <> 'expired'` for `status = 'pending'`
where_fresh_not_expired(jr, chat_id, min_user_id) ==
    {id \in DOMAIN jr : /\ jr[id].chat_id = chat_id
                        /\ jr[id].status # "expired"
                        /\ jr[id].user_id >= min_user_id}

\* mutant: the WHERE clause without `chat_id = %s`
where_pending_any_chat(jr, chat_id, min_user_id) ==
    {id \in DOMAIN jr : /\ jr[id].status = "pending"
                        /\ jr[id].user_id >= min_user_id}

\* mutant: the WHERE clause with `user_id > %s`
where_pending_above(jr, chat_id, min_user_id) ==
    {id \in DOMAIN jr : /\ jr[id].chat_id = chat_id
                        /\ jr[id].status = "pending"
                        /\ jr[id].user_id > min_user_id}

\* WHERE chat_id = %s AND status = 'pending' AND user_id >= %s
where_pending_fresh(jr, chat_id, min_user_id) ==
    {id \in DOMAIN jr : /\ jr[id].chat_id = chat_id
                        /\ jr[id].status = "pending"
                        /\ jr[id].user_id >= min_user_id}

\* the sequences of at most n distinct elements of S
SeqsUpTo(S, n) ==
    UNION {{s \in [1..k -> S] : \A i, j \in 1..k : i # j => s[i] # s[j]} : k \in 0..n}

\* mutant: ORDER BY id ASC LIMIT %s
order_by_id_limit(jr, ids, limit) ==
    {s \in SeqsUpTo(ids, Min(limit, Cardinality(ids))) :
        /\ Len(s) = Min(limit, Cardinality(ids))
        /\ \A i, j \in 1..Len(s) : i < j => s[i] < s[j]
        /\ \A i \in 1..Len(s) : \A id \in ids \ Range(s) : s[i] < id}

\* mutant: ORDER BY request_date DESC LIMIT %s
order_by_date_desc_limit(jr, ids, limit) ==
    {s \in SeqsUpTo(ids, Min(limit, Cardinality(ids))) :
        /\ Len(s) = Min(limit, Cardinality(ids))
        /\ \A i, j \in 1..Len(s) : i < j => jr[s[i]].request_date >= jr[s[j]].request_date
        /\ \A i \in 1..Len(s) : \A id \in ids \ Range(s) :
              jr[s[i]].request_date >= jr[id].request_date}

\* ORDER BY request_date ASC LIMIT %s over the rows `ids`: every answer the
\* database may give.  SQL leaves the order of rows with equal request_date
\* open, so each such order, and each such cut at the limit, is an answer.
order_by_date_limit(jr, ids, limit) ==
    {s \in SeqsUpTo(ids, Min(limit, Cardinality(ids))) :
        /\ Len(s) = Min(limit, Cardinality(ids))
        /\ \A i, j \in 1..Len(s) : i < j => jr[s[i]].request_date <= jr[s[j]].request_date
        /\ \A i \in 1..Len(s) : \A id \in ids \ Range(s) :
              jr[s[i]].request_date <= jr[id].request_date}

\* the dict get_pending_fresh_join_requests builds of a row: bio and status are not selected
row_dict(r) ==
    [id |-> r.id, user_id |-> r.user_id, chat_id |-> r.chat_id,
     username |-> r.username, first_name |-> r.first_name,
     request_date |-> r.request_date]

\* get_pending_fresh_join_requests(chat_id, min_user_id, limit): its possible results
get_pending_fresh_join_requests(jr, chat_id, min_user_id, limit) ==
    {[i \in 1..Len(s) |-> row_dict(jr[s[i]])] :
        s \in order_by_date_limit(jr, where_pending_fresh(jr, chat_id, min_user_id), limit)}

\* mutant: ... WHERE id = ANY(%s) AND status = 'pending'
mark_only_pending(jr, ids, status) ==
    IF ids = {} THEN jr
    ELSE [id \in DOMAIN jr |->
            IF id \in ids /\ jr[id].status = "pending"
            THEN [jr[id] EXCEPT !.status = status] ELSE jr[id]]

\* mutant: the UPDATE has no WHERE clause
mark_every_row(jr, ids, status) ==
    IF ids = {} THEN jr
    ELSE [id \in DOMAIN jr |-> [jr[id] EXCEPT !.status = status]]

\* mutant: the WHERE clause matches no row
mark_matches_no_row(jr, ids, status) == jr

\* mark_join_requests_status(ids, status): the table after
\* UPDATE join_requests SET status = %s WHERE id = ANY(%s); untouched for no ids
mark_join_requests_status(jr, ids, status) ==
    IF ids = {} THEN jr
    ELSE [id \in DOMAIN jr |->
            IF id \in ids THEN [jr[id] EXCEPT !.status = status] ELSE jr[id]]

\* the rowcount mark_join_requests_status returns
mark_rowcount(jr, ids) ==
    IF ids = {} THEN 0 ELSE Cardinality(ids \cap DOMAIN jr)

----------------------------------------------------------------------------
(* The audit line (app/bot/handlers.py) *)

Whitespace == {" ", "\t", "\n", "\r"}

\* str.strip(): leading and trailing whitespace removed
Strip(t) ==
    LET keep == {i \in 1..Len(t) : t[i] \notin Whitespace}
    IN  IF keep = {} THEN <<>>
        ELSE LET lo == CHOOSE i \in keep : \A j \in keep : i <= j
                 hi == CHOOSE i \in keep : \A j \in keep : j <= i
             IN  SubSeq(t, lo, hi)

\* _sanitize_one_line(text)
sanitize_one_line(text) ==
    LET t == IF text = NoText THEN <<>> ELSE text
    IN  Strip([i \in 1..Len(t) |-> IF t[i] \in {"\n", "\r"} THEN " " ELSE t[i]])

\* `x or ""` on an Optional[str]
OrEmpty(text) == IF text = NoText THEN <<>> ELSE text

\* f"{type(e).__name__}: {e}"
ErrMsg(type, text) == Chars[type] \o <<":", " ">> \o Chars[text]

\* the fields of the line the loop body builds for `req`; ts stands for the
\* ISO timestamp datetime.now(timezone.utc).isoformat()
audit_line(outcome, req, chat_id, msg) ==
    [ts |-> "ts", outcome |-> outcome, request_id |-> req.id, chat_id |-> chat_id,
     user_id |-> req.user_id,
     username |-> sanitize_one_line(OrEmpty(req.username)),
     first_name |-> sanitize_one_line(OrEmpty(req.first_name)),
     message |-> sanitize_one_line(msg)]

\* _append_log_line(fp, line) on a file opened with mode "a"
append_log_line(file, line) == [file EXCEPT !.lines = Append(file.lines, line)]

\* mutant: the file is opened with mode "w"
open_truncate(file) == [exists |-> TRUE, lines |-> <<>>]

\* log_file.open("a"): creates the file when it is missing, keeps its content
open_append(file) == [file EXCEPT !.exists = TRUE]

----------------------------------------------------------------------------
(* What the environment may answer *)

\* bot.decline_chat_join_request: success, or an exception of one of the three
\* classes the loop body tells apart
DeclineResults ==
    { [kind |-> "ok", type |-> "", text |-> ""],
      [kind |-> "BadRequest", type |-> "BadRequest", text |-> "User_already_participant"],
      [kind |-> "BadRequest", type |-> "BadRequest", text |-> "Chat not found"],
      [kind |-> "TelegramError", type |-> "Forbidden", text |-> "USER_NOT_FOUND"],
      [kind |-> "TelegramError", type |-> "TimedOut", text |-> "Timed out"] }

\* the exception a failing store statement raises
StoreErrorType == "OperationalError"
StoreErrorText == "connection is bad"

\* what a join request carries besides its ids: the profile and the date
Profiles ==
    { [username |-> <<"a", "l">>, first_name |-> <<"A", "l">>, bio |-> NoText],
      [username |-> NoText, first_name |-> <<"B", "o">>, bio |-> <<"h", "i">>] }
Payloads ==
    { [profile |-> [username |-> <<"a", "l">>, first_name |-> <<"A", "l">>, bio |-> NoText],
       date |-> 1],
      [profile |-> [username |-> NoText, first_name |-> <<"B", "o">>, bio |-> <<"h", "i">>],
       date |-> 2] }

\* the updates the dispatcher hands to join_request_handler
\* (chat_join_request is FALSE for an update of another kind)
Updates ==
    {u \in [chat_join_request : BOOLEAN, chat_id : ChatIds, user_id : UserIds,
            profile : Profiles, date : RequestDates] :
        /\ [profile |-> u.profile, date |-> u.date] \in Payloads
        /\ u.chat_id = OtherChat => u.user_id = 71 /\ u.date = 1
        /\ u.user_id = 60 => u.date = 2
        /\ ~u.chat_join_request => u.chat_id = OtherChat}

\* the store fails the same way on every accepted update: one of them stands for all
UpdateThatFails ==
    CHOOSE u \in Updates : u.chat_join_request /\ u.chat_id = VibecoderChat /\ u.user_id = 71

\* an update, and whether the store answers the statements of the handler
HandlerInputs == {i \in Updates \X BOOLEAN : i[2] \/ i[1] = UpdateThatFails}

\* vibecoder_chat_id when VIBECODER_CHAT_ID is not set
NoChat == None

\* how an invocation ended: returned (declined, processed), raised, or never got in
Ended(p, kind, d, n, c, w) ==
    [proc |-> p, kind |-> kind, declined |-> d, processed |-> n, calls |-> c, lines |-> w]

----------------------------------------------------------------------------
(* Initial state: a service that has just started on an empty database *)

NoEnd == Ended("", "none", 0, 0, 0, 0)

\* no invocation holds a connection
NoConns == [p \in Procs |-> 0]

\* database.py 51, entering `async with pool.connection() as conn`: p takes a
\* connection of the pool
getconn(c, p) == [c EXCEPT ![p] = c[p] + 1]

\* mutant: leaving the block keeps the connection
putconn_keeps(c, p) == c

\* database.py 51-52 and 58-60, leaving `async with get_cursor() as cur`, by
\* its end, by `return` or by an exception: the cursor is closed and the
\* connection of p goes back to the pool
putconn(c, p) == [c EXCEPT ![p] = 0]

InitSystem ==
    /\ cfg \in [vibecoder_chat_id : {NoChat, VibecoderChat},
                join_request_clean_batch_limit : 1..MaxLimit]
    /\ join_requests = <<>>
    /\ seq = 0
    /\ users = {}
    /\ chats = {}
    /\ lock = FALSE
    /\ pc = [p \in Procs |-> "idle"]
    /\ pending = [p \in Procs |-> <<>>]
    /\ idx = [p \in Procs |-> 0]
    /\ declined = [p \in Procs |-> 0]
    /\ err_msg = [p \in Procs |-> <<>>]
    /\ called = [p \in Procs |-> <<>>]
    /\ wrote = [p \in Procs |-> 0]
    /\ last = NoEnd
    /\ log_dir = FALSE
    /\ log_file = [exists |-> FALSE, lines |-> <<>>]
    /\ passes = 0
    /\ conns = NoConns

\* no result yet; a result r is kept as <<r>>
NotYet == <<>>

Init ==
    /\ InitSystem
    /\ fn_text = <<>>
    /\ fn_result = NotYet

----------------------------------------------------------------------------
(* join_request_handler *)

\* mutant: the comparison with the configured chat id is missing
handler_accepts_any_chat(u, chat_id) ==
    /\ u.chat_join_request
    /\ chat_id # NoChat

\* the three early returns of join_request_handler: does it go on to save?
handler_accepts(u, chat_id) ==
    /\ u.chat_join_request
    /\ chat_id # NoChat
    /\ u.chat_id = chat_id

\* lines 62-76, what join_request_handler does to the store: save_user,
\* save_chat and the upsert of save_join_request_fields; an exception of the
\* store is logged and swallowed
handler_saves(u, store_ok) ==
    IF handler_accepts(u, cfg.vibecoder_chat_id) /\ store_ok
    THEN /\ seq < MaxSeq
         /\ users' = users \cup {u.user_id}
         /\ chats' = chats \cup {u.chat_id}
         /\ join_requests' = upsert_join_request(join_requests, seq + 1, u.user_id,
                                                 u.chat_id, u.profile, u.date)
         /\ seq' = seq + 1
    ELSE UNCHANGED <<users, chats, join_requests, seq>>

\* join_request_handler(update), in the running service
join_request_handler(u, store_ok) ==
    /\ handler_saves(u, store_ok)
    /\ UNCHANGED <<funVars, conns, cfg, lock, pc, pending, idx, declined, err_msg, called, wrote,
                   last, log_dir, log_file, passes>>

----------------------------------------------------------------------------
(* process_pending_fresh_join_requests, one await at a time *)

\* mutant: the lock is given back by a release() after the call, which an
\* exception of the pass skips
Finish_keeps_lock_on_exception(p, end) ==
    /\ pc' = [pc EXCEPT ![p] = "idle"]
    /\ lock' = IF p \in Jobs /\ end.kind = "returned" THEN FALSE ELSE lock
    /\ last' = end
    /\ pending' = [pending EXCEPT ![p] = <<>>]
    /\ idx' = [idx EXCEPT ![p] = 0]
    /\ declined' = [declined EXCEPT ![p] = 0]
    /\ err_msg' = [err_msg EXCEPT ![p] = <<>>]
    /\ called' = [called EXCEPT ![p] = <<>>]
    /\ wrote' = [wrote EXCEPT ![p] = 0]

\* the invocation of p ends: its locals go, and `async with` gives the lock back
\* when p is the job (the script never took it)
Finish(p, end) ==
    /\ pc' = [pc EXCEPT ![p] = "idle"]
    /\ lock' = IF p \in Jobs THEN FALSE ELSE lock
    /\ last' = end
    /\ pending' = [pending EXCEPT ![p] = <<>>]
    /\ idx' = [idx EXCEPT ![p] = 0]
    /\ declined' = [declined EXCEPT ![p] = 0]
    /\ err_msg' = [err_msg EXCEPT ![p] = <<>>]
    /\ called' = [called EXCEPT ![p] = <<>>]
    /\ wrote' = [wrote EXCEPT ![p] = 0]

\* mutant: the loop is left after the first request that ends in "error"
LogAndContinue_returns_on_error(p, outcome, msg, d, cl) ==
    LET req == pending[p][idx[p]]
        n == Len(pending[p])
    IN  /\ log_file' = append_log_line(log_file,
                           audit_line(outcome, req, cfg.vibecoder_chat_id, msg))
        /\ IF idx[p] = n \/ outcome = "error"
           THEN Finish(p, Ended(p, "returned", d, n, Len(cl), wrote[p] + 1))
           ELSE /\ pc' = [pc EXCEPT ![p] = "decline"]
                /\ idx' = [idx EXCEPT ![p] = idx[p] + 1]
                /\ declined' = [declined EXCEPT ![p] = d]
                /\ err_msg' = [err_msg EXCEPT ![p] = <<>>]
                /\ called' = [called EXCEPT ![p] = cl]
                /\ wrote' = [wrote EXCEPT ![p] = wrote[p] + 1]
                /\ UNCHANGED <<lock, last, pending>>

\* the end of the loop body: the audit line is appended, then the loop goes to
\* the next request or the pass returns (declined, processed).
\* d and cl are `declined` and the calls issued, as of this iteration
LogAndContinue(p, outcome, msg, d, cl) ==
    LET req == pending[p][idx[p]]
        n == Len(pending[p])
    IN  /\ log_file' = append_log_line(log_file,
                           audit_line(outcome, req, cfg.vibecoder_chat_id, msg))
        /\ IF idx[p] = n
           THEN Finish(p, Ended(p, "returned", d, n, Len(cl), wrote[p] + 1))
           ELSE /\ pc' = [pc EXCEPT ![p] = "decline"]
                /\ idx' = [idx EXCEPT ![p] = idx[p] + 1]
                /\ declined' = [declined EXCEPT ![p] = d]
                /\ err_msg' = [err_msg EXCEPT ![p] = <<>>]
                /\ called' = [called EXCEPT ![p] = cl]
                /\ wrote' = [wrote EXCEPT ![p] = wrote[p] + 1]
                /\ UNCHANGED <<lock, last, pending>>

\* mutant: mkdir and open stand before the test for an empty batch
Fetch_opens_log_first(p, store_ok, file_ok) ==
    /\ pc[p] = "fetch"
    /\ UNCHANGED <<funVars, cfg, join_requests, seq, users, chats, passes>>
    /\ conns' = putconn(conns, p)
    /\ IF ~store_ok
       THEN /\ Finish(p, Ended(p, "raised_store", 0, 0, 0, 0))
            /\ UNCHANGED <<log_dir, log_file>>
       ELSE \E rows \in get_pending_fresh_join_requests(join_requests,
                            cfg.vibecoder_chat_id, FRESH_ACCOUNT_ID_THRESHOLD,
                            cfg.join_request_clean_batch_limit) :
              IF ~file_ok
              THEN /\ Finish(p, Ended(p, "raised_os", 0, 0, 0, 0))
                   /\ UNCHANGED <<log_dir, log_file>>
              ELSE IF Len(rows) = 0
              THEN /\ Finish(p, Ended(p, "returned", 0, 0, 0, 0))
                   /\ log_dir' = TRUE
                   /\ log_file' = open_append(log_file)
              ELSE /\ log_dir' = TRUE
                   /\ log_file' = open_append(log_file)
                   /\ pc' = [pc EXCEPT ![p] = "decline"]
                   /\ pending' = [pending EXCEPT ![p] = rows]
                   /\ idx' = [idx EXCEPT ![p] = 1]
                   /\ declined' = [declined EXCEPT ![p] = 0]
                   /\ UNCHANGED <<lock, last, err_msg, called, wrote>>

\* lines 145-155: the fetch, the early return on an empty batch, mkdir and open
Fetch(p, store_ok, file_ok) ==
    /\ pc[p] = "fetch"
    /\ UNCHANGED <<funVars, cfg, join_requests, seq, users, chats, passes>>
    /\ conns' = putconn(conns, p)
    /\ IF ~store_ok
       THEN /\ Finish(p, Ended(p, "raised_store", 0, 0, 0, 0))
            /\ UNCHANGED <<log_dir, log_file>>
       ELSE \E rows \in get_pending_fresh_join_requests(join_requests,
                            cfg.vibecoder_chat_id, FRESH_ACCOUNT_ID_THRESHOLD,
                            cfg.join_request_clean_batch_limit) :
              IF Len(rows) = 0
              THEN /\ Finish(p, Ended(p, "returned", 0, 0, 0, 0))
                   /\ UNCHANGED <<log_dir, log_file>>
              ELSE IF ~file_ok
              THEN /\ Finish(p, Ended(p, "raised_os", 0, 0, 0, 0))
                   /\ UNCHANGED <<log_dir, log_file>>
              ELSE /\ log_dir' = TRUE
                   /\ log_file' = open_append(log_file)
                   /\ pc' = [pc EXCEPT ![p] = "decline"]
                   /\ pending' = [pending EXCEPT ![p] = rows]
                   /\ idx' = [idx EXCEPT ![p] = 1]
                   /\ declined' = [declined EXCEPT ![p] = 0]
                   /\ UNCHANGED <<lock, last, err_msg, called, wrote>>

\* mutant: the phrase list is consulted for every exception class
next_after_decline_any_class(r) ==
    IF r.kind = "ok" THEN "mark_declined"
    ELSE IF is_expired_join_request_error(Chars[r.text]) THEN "mark_expired"
    ELSE "error"

\* mutant: every BadRequest counts as already resolved
next_after_decline_every_bad_request(r) ==
    IF r.kind = "ok" THEN "mark_declined"
    ELSE IF r.kind = "BadRequest" THEN "mark_expired"
    ELSE "error"

\* mutant: only `except BadRequest` is there, other exceptions leave the loop
next_after_decline_only_bad_request(r) ==
    IF r.kind = "ok" THEN "mark_declined"
    ELSE IF r.kind = "BadRequest"
         THEN (IF is_expired_join_request_error(Chars[r.text])
               THEN "mark_expired" ELSE "error")
    ELSE "raise"

\* lines 164-177: where the try statement goes once the decline call has
\* answered r.  `except BadRequest` consults the phrase list, `except
\* TelegramError` and `except Exception` only keep the message; "raise" is an
\* exception no clause catches, and the three clauses leave none
next_after_decline(r) ==
    IF r.kind = "ok" THEN "mark_declined"
    ELSE IF r.kind = "BadRequest"
         THEN (IF is_expired_join_request_error(Chars[r.text])
               THEN "mark_expired" ELSE "error")
    ELSE IF r.kind \in {"TelegramError", "Exception"} THEN "error"
    ELSE "raise"

\* line 165 and the except clauses: the decline call of the current request answers
Decline(p, r) ==
    LET req == pending[p][idx[p]]
        cl == Append(called[p], <<cfg.vibecoder_chat_id, req.user_id>>)
        next == next_after_decline(r)
    IN  /\ pc[p] = "decline"
        /\ UNCHANGED <<funVars, conns, cfg, join_requests, seq, users, chats, log_dir,
                       passes>>
        /\ IF next = "error"
           THEN LogAndContinue(p, "error", ErrMsg(r.type, r.text), declined[p], cl)
           ELSE IF next = "raise"
           THEN /\ Finish(p, Ended(p, "raised_api", 0, 0, 0, 0))
                /\ UNCHANGED log_file
           ELSE /\ pc' = [pc EXCEPT ![p] = next]
                /\ called' = [called EXCEPT ![p] = cl]
                /\ err_msg' = [err_msg EXCEPT ![p] =
                                  IF r.kind = "ok" THEN <<>> ELSE ErrMsg(r.type, r.text)]
                /\ UNCHANGED <<lock, last, pending, idx, declined, wrote, log_file>>

\* line 166 stands inside the try statement, and the exceptions of the store
\* are no TelegramError: does an exception of this update leave the pass?
\* `except Exception` catches it
declined_update_error_escapes == FALSE

\* mutant: `declined += 1` stands before the update to declined
MarkDeclined_counts_first(p, store_ok) ==
    LET req == pending[p][idx[p]]
    IN  /\ pc[p] = "mark_declined"
        /\ UNCHANGED <<funVars, cfg, seq, users, chats, log_dir, passes>>
        /\ conns' = putconn(conns, p)
        /\ IF store_ok
           THEN /\ join_requests' = mark_join_requests_status(join_requests, {req.id},
                                                              "declined")
                /\ LogAndContinue(p, "declined", <<>>, declined[p] + 1, called[p])
           ELSE IF declined_update_error_escapes
           THEN /\ Finish(p, Ended(p, "raised_store", 0, 0, 0, 0))
                /\ UNCHANGED <<join_requests, log_file>>
           ELSE /\ UNCHANGED join_requests
                /\ LogAndContinue(p, "error", ErrMsg(StoreErrorType, StoreErrorText),
                                  declined[p] + 1, called[p])

\* lines 166-168: the update to declined answers, then the rest of the body
MarkDeclined(p, store_ok) ==
    LET req == pending[p][idx[p]]
    IN  /\ pc[p] = "mark_declined"
        /\ UNCHANGED <<funVars, cfg, seq, users, chats, log_dir, passes>>
        /\ conns' = putconn(conns, p)
        /\ IF store_ok
           THEN /\ join_requests' = mark_join_requests_status(join_requests, {req.id},
                                                              "declined")
                /\ LogAndContinue(p, "declined", <<>>, declined[p] + 1, called[p])
           ELSE IF declined_update_error_escapes
           THEN /\ Finish(p, Ended(p, "raised_store", 0, 0, 0, 0))
                /\ UNCHANGED <<join_requests, log_file>>
           ELSE /\ UNCHANGED join_requests
                /\ LogAndContinue(p, "error", ErrMsg(StoreErrorType, StoreErrorText),
                                  declined[p], called[p])

\* lines 172-173: the update to expired answers; it stands in an except clause,
\* so its exception leaves the function
MarkExpired(p, store_ok) ==
    LET req == pending[p][idx[p]]
    IN  /\ pc[p] = "mark_expired"
        /\ UNCHANGED <<funVars, cfg, seq, users, chats, log_dir, passes>>
        /\ conns' = putconn(conns, p)
        /\ IF store_ok
           THEN /\ join_requests' = mark_join_requests_status(join_requests, {req.id},
                                                              "expired")
                /\ LogAndContinue(p, "expired", err_msg[p], declined[p], called[p])
           ELSE /\ Finish(p, Ended(p, "raised_store", 0, 0, 0, 0))
                /\ UNCHANGED <<join_requests, log_file>>

----------------------------------------------------------------------------
(* The two callers of the pass *)

\* mutant: the job takes the lock without asking whether it is held
job_entry_waits(locked) == IF locked THEN "wait" ELSE "acquire"

\* lines 193-196: what a tick does with the lock
job_entry(locked) == IF locked THEN "return" ELSE "acquire"

\* clean_join_requests_job(context) up to its first await: the lock, the
\* configuration, the start of the pass.  asyncio.Lock.acquire() does not
\* suspend when the lock is free, so test and acquisition are one step.
\* "waiting" is a task suspended in acquire().
clean_join_requests_job(j) ==
    LET entry == IF pc[j] = "waiting" THEN (IF lock THEN "wait" ELSE "acquire")
                 ELSE job_entry(lock)
    IN  /\ pc[j] \in {"idle", "waiting"}
        /\ pc[j] = "idle" => \A k \in Jobs : JobOrder[k] < JobOrder[j] => pc[k] # "idle"
        /\ UNCHANGED <<funVars, conns, cfg, join_requests, seq, users, chats, log_dir, log_file,
                       pending, idx, declined, err_msg, called, wrote>>
        /\ IF entry = "return"
           THEN /\ last' = Ended(j, "dropped", 0, 0, 0, 0)
                /\ UNCHANGED <<lock, pc, passes>>
           ELSE IF entry = "wait"
           THEN /\ pc' = [pc EXCEPT ![j] = "waiting"]
                /\ UNCHANGED <<lock, last, passes>>
           ELSE IF cfg.vibecoder_chat_id = NoChat
           THEN /\ last' = Ended(j, "no_chat", 0, 0, 0, 0)
                /\ pc' = [pc EXCEPT ![j] = "idle"]
                /\ lock' = FALSE
                /\ UNCHANGED passes
           ELSE /\ passes < MaxPasses
                /\ lock' = TRUE
                /\ pc' = [pc EXCEPT ![j] = "fetch"]
                /\ passes' = passes + 1
                /\ UNCHANGED last

\* scripts/clean_requests.py main() up to the call of the pass: the
\* configuration, the fetch of its own, the early exit on an empty result
clean_requests_main(store_ok) ==
    /\ pc[Script] = "idle"
    /\ passes < MaxPasses
    /\ passes' = passes + 1
    /\ UNCHANGED <<funVars, conns, cfg, join_requests, seq, users, chats, log_dir, log_file, lock,
                   pending, idx, declined, err_msg, called, wrote>>
    /\ IF cfg.vibecoder_chat_id = NoChat
       THEN /\ last' = Ended(Script, "no_chat", 0, 0, 0, 0)
            /\ UNCHANGED pc
       ELSE IF ~store_ok
       THEN /\ last' = Ended(Script, "raised_store", 0, 0, 0, 0)
            /\ UNCHANGED pc
       ELSE \E rows \in get_pending_fresh_join_requests(join_requests,
                            cfg.vibecoder_chat_id, FRESH_ACCOUNT_ID_THRESHOLD,
                            cfg.join_request_clean_batch_limit) :
              IF Len(rows) = 0
              THEN /\ last' = Ended(Script, "empty", 0, 0, 0, 0)
                   /\ UNCHANGED pc
              ELSE /\ pc' = [pc EXCEPT ![Script] = "fetch"]
                   /\ UNCHANGED last

----------------------------------------------------------------------------
(* The system: the service (updates and ticks) and the script beside it *)

Next ==
    \/ \E i \in HandlerInputs : join_request_handler(i[1], i[2])
    \/ \E j \in Jobs : clean_join_requests_job(j)
    \/ \E store_ok \in BOOLEAN : clean_requests_main(store_ok)
    \/ \E p \in Procs, store_ok \in BOOLEAN, file_ok \in BOOLEAN :
          Fetch(p, store_ok, file_ok)
    \/ \E p \in Procs, r \in DeclineResults : Decline(p, r)
    \/ \E p \in Procs, store_ok \in BOOLEAN : MarkDeclined(p, store_ok)
    \/ \E p \in Procs, store_ok \in BOOLEAN : MarkExpired(p, store_ok)

Spec == Init /\ [][Next]_vars

----------------------------------------------------------------------------
(* _is_expired_join_request_error applied on its own *)

UpperChar(c) ==
    IF \E k \in DOMAIN LowerOf : LowerOf[k] = c
    THEN CHOOSE k \in DOMAIN LowerOf : LowerOf[k] = c
    ELSE c

\* str.upper()
Upper(t) == [i \in 1..Len(t) |-> UpperChar(t[i])]

\* the phrases the specification names for the list
SpecPhrases ==
    {Chars["request not found"], Chars["already participant"], Chars["user not found"]}

\* the messages tried: a phrase of the list, a phrase the specification names
\* or an unrelated one, with and without text around it, as written and in
\* capitals; and no message at all
ClassifierTexts ==
    {NoText} \cup
    {IF up THEN Upper(pre \o ph \o post) ELSE pre \o ph \o post :
        pre \in {Chars[""], Chars["Bad Request: "]},
        ph \in Needles \cup SpecPhrases \cup
               {Chars[""], Chars["Timed out"], Chars["Chat not found"], Chars["User_already_participant"]},
        post \in {Chars[""], Chars[" (400)"]},
        up \in BOOLEAN}

InitClassifier ==
    /\ InitSystem
    /\ fn_text \in ClassifierTexts
    /\ fn_result = NotYet

Classify ==
    /\ fn_result = NotYet
    /\ fn_result' = <<is_expired_join_request_error(fn_text)>>
    /\ UNCHANGED <<sysVars, fn_text, conns>>

SpecClassifier == InitClassifier /\ [][Classify]_vars

\* t holds phrase, letter case aside
HoldsIgnoringCase(phrase, t) ==
    \E i \in 1..(Len(t) - Len(phrase) + 1) :
        \A k \in 1..Len(phrase) : UpperChar(t[i + k - 1]) = UpperChar(phrase[k])

\* C5: the classifier answers true exactly for the texts that hold, letter
\* case aside, a phrase of its list; every text that holds "request not
\* found", "already participant" or "user not found" in any letter case is
\* classified as already resolved; an empty or missing text is not.
C5_Original ==
    fn_result # NotYet =>
        LET t == OrEmpty(fn_text)
        IN  /\ fn_result[1] <=> \E needle \in Needles : HoldsIgnoringCase(needle, t)
            /\ (\E ph \in SpecPhrases : HoldsIgnoringCase(ph, t)) => fn_result[1]
            /\ t = <<>> => ~fn_result[1]

\* what of C5 the classifier does: the first and the last part
C5_ExactlyTheList ==
    fn_result # NotYet =>
        LET t == OrEmpty(fn_text)
        IN  /\ fn_result[1] <=> \E needle \in Needles : HoldsIgnoringCase(needle, t)
            /\ t = <<>> => ~fn_result[1]

----------------------------------------------------------------------------
(* Claims *)

\* an invocation is inside process_pending_fresh_join_requests
PassPcs == {"fetch", "decline", "mark_declined", "mark_expired"}
InPass(p) == pc[p] \in PassPcs

\* the line a step has appended to the audit log, if any
Appended == Len(log_file'.lines) = Len(log_file.lines) + 1
NewLine == log_file'.lines[Len(log_file'.lines)]

\* p's current request
Req(p) == pending[p][idx[p]]

\* C1: in every reachable state at most one execution of
\* process_pending_fresh_join_requests is in flight, whoever triggered it: a
\* tick of clean_join_requests_job or the clean_requests script.
C1_AtMostOnePassInFlight ==
    Cardinality({p \in Procs : InPass(p)}) <= 1

\* C2: a tick of clean_join_requests_job that finds the lock held is dropped:
\* the step changes nothing but the record of how the tick ended (no fetch, no
\* decline call, no exception, the lock stays with its holder), and no
\* invocation of the job ever waits for the lock, so none runs later on behalf
\* of a dropped tick.
C2_TickDroppedWhileLocked ==
    /\ [](\A j \in Jobs : pc[j] # "waiting")
    /\ [][\A j \in Jobs :
            (lock /\ clean_join_requests_job(j)) =>
                /\ last' = Ended(j, "dropped", 0, 0, 0, 0)
                /\ UNCHANGED <<cfg, join_requests, seq, users, chats, lock, pc, pending,
                               idx, declined, err_msg, called, wrote, log_dir, log_file,
                               passes>>]_vars

\* C2 witness: a tick has just been dropped while a pass is in flight
C2_Witness ==
    /\ last.kind = "dropped"
    /\ \E j \in Jobs : InPass(j) /\ j # last.proc
    /\ lock

\* p leaves the await it stands at
LeavesPc(p, at) == pc[p] = at /\ pc'[p] # at

\* the decline call of p's current request answers in this step
DeclineAnswers(p) == pc[p] = "decline" /\ (pc'[p] # "decline" \/ idx'[p] # idx[p])

\* `declined` of p after a step that may have been its last
DeclinedAfter(p) == IF pc'[p] = "idle" THEN last'.declined ELSE declined'[p]

\* the step marks p's current request `status` and logs it as such
MarkedAndLogged(p, status) ==
    /\ join_requests'[Req(p).id].status = status
    /\ Appended
    /\ NewLine.outcome = status
    /\ NewLine.request_id = Req(p).id
    /\ NewLine.user_id = Req(p).user_id

\* the outcome of C3
DeclinedOutcome(p) ==
    /\ MarkedAndLogged(p, "declined")
    /\ DeclinedAfter(p) = declined[p] + 1

\* the update to declined raised: the table is as before, the counter too, and
\* the line says "error" with the exception of the store
DeclinedUpdateFailed(p) ==
    /\ join_requests' = join_requests
    /\ DeclinedAfter(p) = declined[p]
    /\ Appended
    /\ NewLine.outcome = "error"
    /\ NewLine.request_id = Req(p).id
    /\ NewLine.message = ErrMsg(StoreErrorType, StoreErrorText)

HasPrefix(s, pre) == Len(s) >= Len(pre) /\ SubSeq(s, 1, Len(pre)) = pre

\* the message of the exception the decline call raised in this step, as the
\* step keeps it: in err_msg on the way to the update, else in the line
RaisedMsg(p) ==
    IF pc'[p] = "mark_expired" THEN err_msg'[p]
    ELSE IF Appended THEN NewLine.message
    ELSE <<>>

ByBadRequest(msg) == HasPrefix(msg, Chars["BadRequest"] \o <<":", " ">>)

\* the update to expired raised: nothing is written and the pass is over
ExpiredUpdateRaised(p) ==
    /\ join_requests' = join_requests
    /\ log_file' = log_file
    /\ pc'[p] = "idle"
    /\ last' = Ended(p, "raised_store", 0, 0, 0, 0)

LastOutcome(id) ==
    LET about == {i \in 1..Len(log_file.lines) : log_file.lines[i].request_id = id}
    IN  IF about = {} THEN "none"
        ELSE log_file.lines[CHOOSE i \in about : \A k \in about : k <= i].outcome

\* the fetch of p's pass returns in this step, and the ids it returns
FetchReturns(p) ==
    /\ pc[p] = "fetch"
    /\ pc'[p] = "decline" \/ (pc'[p] = "idle" /\ last'.kind = "returned")
Fetched(p) ==
    IF pc'[p] = "decline" THEN {pending'[p][i].id : i \in 1..Len(pending'[p])} ELSE {}

\* the decline call of p's current request raises, in this step, an exception
\* whose message holds no phrase of the list
RaisesUnrecognized(p) ==
    /\ DeclineAnswers(p)
    /\ RaisedMsg(p) # <<>>
    /\ ~is_expired_join_request_error(RaisedMsg(p))

\* the step leaves the table alone and logs "error" for p's current request
LeftPendingAndLoggedError(p) ==
    /\ join_requests' = join_requests
    /\ join_requests[Req(p).id].status = "pending"
    /\ Appended
    /\ NewLine.outcome = "error"
    /\ NewLine.request_id = Req(p).id

\* C6 as stated: when the decline call of a selected request fails with an
\* error that is not recognized, the status stays pending, the outcome logged
\* is "error", and the next pass's fetch returns the request again.
C6_Original ==
    [][\A p \in Procs :
          /\ RaisesUnrecognized(p) => LeftPendingAndLoggedError(p)
          /\ FetchReturns(p) =>
                \A id \in DOMAIN join_requests :
                    LastOutcome(id) = "error" => id \in Fetched(p)]_vars

\* the step writes no status and logs "error" for p's current request
WroteNoStatusAndLoggedError(p) ==
    /\ join_requests' = join_requests
    /\ Appended
    /\ NewLine.outcome = "error"
    /\ NewLine.request_id = Req(p).id

\* C6 amended: when the decline call of a selected request fails with an
\* error that is not recognized, the pass writes no status for the request
\* and logs the outcome "error"; a request whose last outcome is "error" and
\* that is still pending is returned by the next fetch unless `limit` other
\* pending fresh requests of the chat, none with a later request_date than
\* its own, fill the batch.
C6_ErrorLeavesPending ==
    [][\A p \in Procs :
          /\ RaisesUnrecognized(p) => WroteNoStatusAndLoggedError(p)
          /\ FetchReturns(p) =>
                \A id \in DOMAIN join_requests :
                    (LastOutcome(id) = "error" /\ join_requests[id].status = "pending") =>
                        \/ id \in Fetched(p)
                        \/ /\ Cardinality(Fetched(p)) = cfg.join_request_clean_batch_limit
                           /\ \A f \in Fetched(p) :
                                 join_requests[f].request_date
                                     <= join_requests[id].request_date]_vars

\* C6 witness: with no other pass in flight, a pass is about to call decline
\* for a request whose last audit line, written by an earlier pass, says
\* "error"
C6_Witness ==
    \E p \in Procs :
        /\ pc[p] = "decline"
        /\ \A q \in Procs \ {p} : pc[q] = "idle"
        /\ LastOutcome(Req(p).id) = "error"
        /\ wrote[p] = 0

C8_Original ==
    \A i \in 1..Len(log_file.lines) :
        ~(/\ log_file.lines[i].outcome = "error"
          /\ log_file.lines[i].message = ErrMsg(StoreErrorType, StoreErrorText))

Terminal(status) == status \in {"declined", "expired"}

\* C9: every request a pass selected has a status among declined, expired and
\* pending, and no later or overlapping pass turns a declined request into an
\* expired one or an expired one into a declined one.
C9_Original ==
    /\ [](\A id \in DOMAIN join_requests : join_requests[id].status \in Statuses)
    /\ [][\A id \in DOMAIN join_requests :
            /\ join_requests[id].status = "declined" => join_requests'[id].status # "expired"
            /\ join_requests[id].status = "expired" => join_requests'[id].status # "declined"]_vars

\* C10 as stated: once a request is declined or expired, no step changes its status.
C10_Original ==
    [][\A id \in DOMAIN join_requests :
          Terminal(join_requests[id].status) =>
              join_requests'[id].status = join_requests[id].status]_vars

\* the step is an upsert that resets row id to pending
ResetByUpsert(id) ==
    /\ join_requests'[id].status = "pending"
    /\ seq' = seq + 1
    /\ UNCHANGED <<pc, pending, idx, log_file, last>>

\* the step is the status update of a pass that had fetched row id
WrittenByPassThatFetched(id) ==
    \E p \in Procs :
        /\ pc[p] \in {"mark_declined", "mark_expired"}
        /\ pc'[p] # pc[p]
        /\ Req(p).id = id
        /\ Terminal(join_requests'[id].status)

\* C10 amended: a pass never fetches a request that is declined or expired,
\* and the status of such a request changes only by the upsert of a new
\* inbound request of the same user and chat, which resets it to pending, or
\* by the status update of a pass that had fetched the row while it was
\* pending (an overlapping pass, see C1, has resolved it since).
C10_TerminalUntilUpsert ==
    [][/\ \A id \in DOMAIN join_requests :
            (Terminal(join_requests[id].status)
                /\ join_requests'[id].status # join_requests[id].status)
            => ResetByUpsert(id) \/ WrittenByPassThatFetched(id)
       /\ \A p \in Procs :
            FetchReturns(p) => \A id \in Fetched(p) : join_requests[id].status = "pending"]_vars

\* C10 witness: a request the audit log shows as declined is pending again
C10_Witness ==
    \E id \in DOMAIN join_requests :
        /\ LastOutcome(id) = "declined"
        /\ join_requests[id].status = "pending"

\* no request of the configured chat is pending and fresh: the fetch of a
\* pass returns no request
NoneToFetch ==
    where_pending_fresh(join_requests, cfg.vibecoder_chat_id, FRESH_ACCOUNT_ID_THRESHOLD) = {}

\* C14: when the fetch of a pass returns no request, the pass returns (0, 0)
\* in that very step: it issues no decline call and no status update, and it
\* neither creates the log directory nor creates or opens the log file.  (A
\* fetch the store fails raises instead, and touches nothing either.)
C14_EmptyBatchTouchesNothing ==
    [][\A p \in Procs :
          (LeavesPc(p, "fetch") /\ NoneToFetch) =>
              /\ pc'[p] = "idle"
              /\ \/ last' = Ended(p, "returned", 0, 0, 0, 0)
                 \/ last' = Ended(p, "raised_store", 0, 0, 0, 0)
              /\ called'[p] = <<>>
              /\ UNCHANGED <<join_requests, log_dir, log_file>>]_vars

\* C14 witness: a pass has returned (0, 0) on a table that holds a request,
\* and there is neither a log directory nor a log file
C14_Witness ==
    /\ last.kind = "returned" /\ last.processed = 0 /\ last.declined = 0
    /\ last.proc \in Jobs
    /\ join_requests # <<>>
    /\ ~log_dir
    /\ ~log_file.exists

\* the pass of p returns in this step, having processed requests
ReturnsProcessed(p) ==
    /\ pc[p] \in {"decline", "mark_declined", "mark_expired"}
    /\ pc'[p] = "idle"
    /\ last'.kind = "returned"

\* C15: the audit log only grows, one line at a time and at its end: no step
\* changes or removes a line the file holds, and the file once created stays;
\* every line appended is the line of the request a pass is processing; a
\* pass that returns after processing N requests has appended exactly N
\* lines, one for each request of its batch.
C15_AppendOnlyOneLinePerRequest ==
    [][/\ \/ log_file'.lines = log_file.lines
          \/ Appended /\ SubSeq(log_file'.lines, 1, Len(log_file.lines)) = log_file.lines
       /\ log_file.exists => log_file'.exists
       /\ Appended =>
             \E p \in Procs :
                 /\ pc[p] \in {"decline", "mark_declined", "mark_expired"}
                 /\ NewLine.request_id = Req(p).id
                 /\ wrote[p] = idx[p] - 1
                 /\ wrote'[p] = idx[p] \/ ReturnsProcessed(p)
       /\ \A p \in Procs :
             ReturnsProcessed(p) =>
                 /\ Appended
                 /\ idx[p] = Len(pending[p])
                 /\ last'.processed = Len(pending[p])
                 /\ last'.lines = last'.processed]_vars

\* C15 witness: a pass has returned after appending its lines to a file that
\* held lines of an earlier pass
C15_Witness ==
    /\ last.kind = "returned"
    /\ last.lines >= 1
    /\ Len(log_file.lines) > last.lines
    /\ \A p \in Procs : pc[p] = "idle"
    /\ passes = 2

\* the decline calls of p's pass once the current step is over: the call of
\* the current request is issued in the step that leaves "decline"
CalledThrough(p) ==
    IF pc[p] = "decline"
    THEN Append(called[p], <<cfg.vibecoder_chat_id, Req(p).user_id>>)
    ELSE called[p]

\* one call for each of the first k requests of p's batch, in their order
CallsOfFirst(p, k) == [i \in 1..k |-> <<cfg.vibecoder_chat_id, pending[p][i].user_id>>]

\* p's pass ends in this step, by a return or by an exception
PassEnds(p) ==
    /\ pc[p] \in {"decline", "mark_declined", "mark_expired"}
    /\ pc'[p] = "idle"

\* C17 as stated: a pass has called decline exactly once for each request it
\* fetched, and for no other (chat_id, user_id), when it ends.
C17_Original ==
    [][\A p \in Procs :
          PassEnds(p) => CalledThrough(p) = CallsOfFirst(p, Len(pending[p]))]_vars

\* C17 amended: no request is twice in a batch; while a pass runs, it has
\* called decline exactly once for each request before the current one (and
\* for the current one once its call is out), in the order of the batch, and
\* for no other (chat_id, user_id); a pass that returns has called it once
\* for every request it fetched; a pass that an exception ends has called it
\* once for each request up to the current one and for none after it.
C17_OnceEachUntilTheEnd ==
    /\ [](\A p \in Procs :
            (pc[p] \in {"decline", "mark_declined", "mark_expired"}) =>
                /\ \A i, j \in 1..Len(pending[p]) :
                      i # j => /\ pending[p][i].id # pending[p][j].id
                               /\ pending[p][i].user_id # pending[p][j].user_id
                /\ called[p] = CallsOfFirst(p, IF pc[p] = "decline" THEN idx[p] - 1
                                               ELSE idx[p]))
    /\ [][\A p \in Procs :
            PassEnds(p) =>
                /\ CalledThrough(p) = CallsOfFirst(p, idx[p])
                /\ last'.kind = "returned" =>
                      /\ idx[p] = Len(pending[p])
                      /\ last'.calls = Len(pending[p])]_vars

\* C17 witness: a pass has returned after one decline call for each of the
\* two requests it fetched
C17_Witness ==
    /\ last.kind = "returned"
    /\ last.processed = 2
    /\ last.calls = 2
    /\ pc[last.proc] = "idle"

\* the update to declined of p's current request is done in this step
SetsDeclined(p) ==
    /\ LeavesPc(p, "mark_declined")
    /\ join_requests' = mark_join_requests_status(join_requests, {Req(p).id}, "declined")
    /\ join_requests'[Req(p).id].status = "declined"
    /\ Appended
    /\ NewLine.outcome = "declined"

\* the pass of p returns in this step
Returns(p) == InPass(p) /\ pc'[p] = "idle" /\ last'.kind = "returned"

\* C19: a pass that returns gives (declined, processed): processed is the
\* number of requests its fetch returned, at most the limit; declined starts
\* at zero, grows by one in each step in which the pass sets the status of a
\* request of its batch to declined and in no other step, and never counts
\* more than the requests the pass has gone through; so
\* 0 <= declined <= processed <= limit at the return.
C19_ReturnsDeclinedAndProcessed ==
    /\ [](\A p \in Procs :
             pc[p] \in {"decline", "mark_declined", "mark_expired"} =>
                 /\ Len(pending[p]) <= cfg.join_request_clean_batch_limit
                 /\ idx[p] \in 1..Len(pending[p])
                 /\ declined[p] \in 0..(idx[p] - 1))
    /\ [][\A p \in Procs :
             /\ pc[p] = "fetch" /\ pc'[p] = "decline" =>
                   /\ declined'[p] = 0
                   /\ idx'[p] = 1
             /\ pc[p] \in {"decline", "mark_declined", "mark_expired"} =>
                   /\ pc'[p] # "idle" => pending'[p] = pending[p]
                   /\ pc'[p] # "idle" => idx'[p] \in {idx[p], idx[p] + 1}
                   /\ pc'[p] # "idle" \/ last'.kind = "returned" =>
                         DeclinedAfter(p) = declined[p] + (IF SetsDeclined(p) THEN 1 ELSE 0)
             /\ Returns(p) =>
                   /\ last'.proc = p
                   /\ last'.processed = Len(pending[p])
                   /\ pc[p] # "fetch" => idx[p] = Len(pending[p])
                   /\ pc[p] = "fetch" => last'.declined = 0
                   /\ 0 <= last'.declined
                   /\ last'.declined <= last'.processed
                   /\ last'.processed <= cfg.join_request_clean_batch_limit]_vars

\* C19 witness: a pass has returned (1, 2): of the two requests it fetched it
\* marked one declined, and the other ended in "error"
C19_Witness ==
    /\ last.kind = "returned"
    /\ last.processed = 2
    /\ last.declined = 1
    /\ cfg.join_request_clean_batch_limit = 2
    /\ \E i \in 1..Len(log_file.lines) : log_file.lines[i].outcome = "error"
    /\ \E id \in 1..Len(join_requests) : join_requests[id].status = "declined"

\* the loop of p's pass goes to its next request in this step
NextRequest(p) == InPass(p) /\ pc'[p] # "idle" /\ idx'[p] # idx[p]

\* C23: within one pass the requests are handled strictly one at a time, in
\* the order of the fetch, which is by ascending request_date: while the pass
\* stands at a request, the decline calls and the audit lines of all requests
\* before it are done and none of a later request; the loop goes on by one
\* request, and only in the step that appends the audit line of the current
\* one, after its decline call has answered and its status update, if any,
\* has returned; so a pass has at most one decline call in flight and
\* appends its lines in the order of the fetch.
C23_OneAtATimeInFetchOrder ==
    /\ [](\A p \in Procs :
             pc[p] \in {"decline", "mark_declined", "mark_expired"} =>
                 /\ \A i, j \in 1..Len(pending[p]) :
                       i < j => pending[p][i].request_date <= pending[p][j].request_date
                 /\ wrote[p] = idx[p] - 1
                 /\ called[p] = CallsOfFirst(p, IF pc[p] = "decline" THEN idx[p] - 1
                                                ELSE idx[p]))
    /\ [][\A p \in Procs :
             /\ NextRequest(p) =>
                   /\ pc[p] # "fetch" => idx'[p] = idx[p] + 1
                   /\ pc[p] # "fetch" => Appended /\ NewLine.request_id = Req(p).id
                   /\ pc[p] # "fetch" => called'[p] = CallsOfFirst(p, idx[p])
                   /\ pc[p] = "fetch" => idx'[p] = 1 /\ called'[p] = <<>> /\ wrote'[p] = 0
                   /\ pc'[p] = "decline"
             /\ pc[p] \in {"decline", "mark_declined", "mark_expired"} /\ Appended
                /\ NewLine.request_id = Req(p).id /\ wrote'[p] # wrote[p] =>
                   \/ NextRequest(p)
                   \/ pc'[p] = "idle" /\ idx[p] = Len(pending[p])]_vars

\* C23 witness: a pass of two requests of different dates waits for the
\* decline call of the later one, the call and the line of the earlier one done
C23_Witness ==
    \E p \in Procs :
        /\ pc[p] = "decline"
        /\ idx[p] = 2
        /\ pending[p][1].request_date < pending[p][2].request_date
        /\ called[p] = <<<<cfg.vibecoder_chat_id, pending[p][1].user_id>>>>
        /\ wrote[p] = 1
        /\ log_file.lines[Len(log_file.lines)].request_id = pending[p][1].id

\* p's pass appends the audit line of its current request in this step
WritesLine(p) ==
    /\ pc[p] \in {"decline", "mark_declined", "mark_expired"}
    /\ pc'[p] # pc[p] \/ idx'[p] # idx[p]
    /\ Appended

\* what the line of p's step tells agrees with what the step did to the row
LineAgreesWithStore(p) ==
    LET id == Req(p).id
    IN  /\ NewLine.request_id = id
        /\ NewLine.outcome = "declined" =>
              pc[p] = "mark_declined" /\ join_requests'[id].status = "declined"
        /\ NewLine.outcome = "expired" =>
              pc[p] = "mark_expired" /\ join_requests'[id].status = "expired"
        /\ NewLine.outcome = "error" => join_requests' = join_requests
        /\ join_requests' # join_requests => NewLine.outcome = join_requests'[id].status

\* C27 as stated: for every line a pass writes, the outcome is "declined"
\* exactly when the pass set the status to declined, "expired" exactly when
\* it set it to expired, "error" exactly when it left the status unchanged;
\* and no request is logged as "error" after its decline call succeeded.
C27_Original ==
    [][\A p \in Procs :
          WritesLine(p) =>
              /\ LineAgreesWithStore(p)
              /\ NewLine.outcome = "error" => pc[p] = "decline"]_vars

----------------------------------------------------------------------------
(* A database that is not empty: the tables the upserts and status updates  *)
(* of earlier runs can have left                                            *)

\* the (user_id, chat_id) pairs of the rows
Pairs == {<<u, VibecoderChat>> : u \in UserIds} \cup {<<71, OtherChat>>}

\* the rows without their ids: what an upsert wrote, and the status it has now
TableRows ==
    {[user_id |-> pr[1], chat_id |-> pr[2], username |-> pl.profile.username,
      first_name |-> pl.profile.first_name, bio |-> pl.profile.bio,
      request_date |-> pl.date, status |-> st] :
        pr \in Pairs, pl \in Payloads, st \in Statuses}

\* the ids follow one order of the pairs: one table stands for its renumberings
PairRank(r) == r.user_id + (IF r.chat_id = OtherChat THEN 100 ELSE 0)

WithId(r, id) ==
    [id |-> id, user_id |-> r.user_id, chat_id |-> r.chat_id, username |-> r.username,
     first_name |-> r.first_name, bio |-> r.bio, request_date |-> r.request_date,
     status |-> r.status]

\* tables of at most MaxRows rows, one row per pair (UNIQUE (user_id, chat_id))
Tables ==
    {[id \in 1..Len(t) |-> WithId(t[id], id)] :
        t \in {t \in UNION {[1..k -> TableRows] : k \in 0..MaxRows} :
                 \A i, j \in 1..Len(t) : i < j => PairRank(t[i]) < PairRank(t[j])}}

\* the service starts on such a table; the sequence has handed out its ids
InitOnTable ==
    /\ cfg \in [vibecoder_chat_id : {NoChat, VibecoderChat},
                join_request_clean_batch_limit : 1..MaxLimit]
    /\ join_requests \in Tables
    /\ seq = Len(join_requests)
    /\ users = {join_requests[id].user_id : id \in DOMAIN join_requests}
    /\ chats = {join_requests[id].chat_id : id \in DOMAIN join_requests}
    /\ lock = FALSE
    /\ pc = [p \in Procs |-> "idle"]
    /\ pending = [p \in Procs |-> <<>>]
    /\ idx = [p \in Procs |-> 0]
    /\ declined = [p \in Procs |-> 0]
    /\ err_msg = [p \in Procs |-> <<>>]
    /\ called = [p \in Procs |-> <<>>]
    /\ wrote = [p \in Procs |-> 0]
    /\ last = NoEnd
    /\ log_dir = FALSE
    /\ log_file = [exists |-> FALSE, lines |-> <<>>]
    /\ passes = 0
    /\ conns = NoConns
    /\ fn_text = <<>>
    /\ fn_result = NotYet

----------------------------------------------------------------------------
(* Passes in succession: ticks of one job, no inbound request, a decline    *)
(* call that always succeeds, a store and a log file that answer            *)

DeclineOk == CHOOSE r \in DeclineResults : r.kind = "ok"

NextInSuccession ==
    \/ clean_join_requests_job("job1")
    \/ Fetch("job1", TRUE, TRUE)
    \/ Decline("job1", DeclineOk)
    \/ MarkDeclined("job1", TRUE)

SpecInSuccession == InitOnTable /\ [][NextInSuccession]_vars

\* the second pass has returned
SecondPassReturned == passes = 2 /\ pc["job1"] = "idle" /\ last.kind = "returned"

\* the requests that were pending and fresh in the chat when the first pass
\* began: the ones still pending and the ones a pass has logged since
PendingFreshAtStart ==
    {id \in DOMAIN join_requests :
        /\ join_requests[id].chat_id = cfg.vibecoder_chat_id
        /\ join_requests[id].user_id >= FRESH_ACCOUNT_ID_THRESHOLD
        /\ \/ join_requests[id].status = "pending"
           \/ \E i \in 1..Len(log_file.lines) : log_file.lines[i].request_id = id}

\* C11 as stated: the second of two passes in succession declines no request,
\* whatever the pending requests and the batch limit.
C11_Original == SecondPassReturned => last.declined = 0

\* C11 amended: with n requests pending and fresh at the start, the second of
\* two passes in succession declines min(limit, n - min(limit, n)) requests:
\* none when n <= limit, and the requests the first batch had no room for
\* otherwise.
C11_SecondPassDeclinesTheRest ==
    SecondPassReturned =>
        LET n == Cardinality(PendingFreshAtStart)
            limit == cfg.join_request_clean_batch_limit
        IN  /\ last.declined = Min(limit, n - Min(limit, n))
            /\ n <= limit => last.declined = 0

\* C11 witness: the first pass declined requests, the second declined none
C11_Witness ==
    /\ SecondPassReturned
    /\ last.declined = 0
    /\ \E i \in 1..Len(log_file.lines) : log_file.lines[i].outcome = "declined"

----------------------------------------------------------------------------
(* get_pending_fresh_join_requests applied on its own to a table *)

\* account ids in units of 10^8, request dates and thresholds of the queries
QueryUserIds == UserIds \cup {72}
QueryDates == RequestDates \cup {3}
Thresholds == {FRESH_ACCOUNT_ID_THRESHOLD, FRESH_ACCOUNT_ID_THRESHOLD + 1}

QueryPairs == {<<u, VibecoderChat>> : u \in QueryUserIds} \cup {<<71, OtherChat>>}

QueryRows ==
    {[user_id |-> pr[1], chat_id |-> pr[2], username |-> <<"a", "l">>,
      first_name |-> <<"A", "l">>, bio |-> NoText, request_date |-> d, status |-> st] :
        pr \in QueryPairs, d \in QueryDates, st \in Statuses}

QueryTables ==
    {[id \in 1..Len(t) |-> WithId(t[id], id)] :
        t \in {t \in UNION {[1..k -> QueryRows] : k \in 0..MaxRows} :
                 \A i, j \in 1..Len(t) : i < j => PairRank(t[i]) < PairRank(t[j])}}

\* the arguments (chat_id, min_user_id, limit) are kept in fn_text
InitQuery ==
    /\ cfg \in [vibecoder_chat_id : {VibecoderChat}, join_request_clean_batch_limit : {1}]
    /\ join_requests \in QueryTables
    /\ seq = Len(join_requests)
    /\ users = {join_requests[id].user_id : id \in DOMAIN join_requests}
    /\ chats = {join_requests[id].chat_id : id \in DOMAIN join_requests}
    /\ lock = FALSE
    /\ pc = [p \in Procs |-> "idle"]
    /\ pending = [p \in Procs |-> <<>>]
    /\ idx = [p \in Procs |-> 0]
    /\ declined = [p \in Procs |-> 0]
    /\ err_msg = [p \in Procs |-> <<>>]
    /\ called = [p \in Procs |-> <<>>]
    /\ wrote = [p \in Procs |-> 0]
    /\ last = NoEnd
    /\ log_dir = FALSE
    /\ log_file = [exists |-> FALSE, lines |-> <<>>]
    /\ passes = 0
    /\ conns = NoConns
    /\ fn_text \in [chat_id : ChatIds, min_user_id : Thresholds, limit : 1..MaxRows]
    /\ fn_result = NotYet

\* one call of get_pending_fresh_join_requests(chat_id, min_user_id, limit)
Query ==
    /\ fn_result = NotYet
    /\ \E rows \in get_pending_fresh_join_requests(join_requests, fn_text.chat_id,
                                                   fn_text.min_user_id, fn_text.limit) :
          fn_result' = <<rows>>
    /\ UNCHANGED <<sysVars, fn_text, conns>>

SpecQuery == InitQuery /\ [][Query]_vars

\* the rows the call returned, and their ids
Returned == fn_result[1]
ReturnedIds == {Returned[i].id : i \in 1..Len(Returned)}

\* row id belongs to the chat asked for, is pending and is of a fresh account
Eligible(id) ==
    /\ join_requests[id].chat_id = fn_text.chat_id
    /\ join_requests[id].status = "pending"
    /\ join_requests[id].user_id >= fn_text.min_user_id

\* C12: get_pending_fresh_join_requests returns a request only if it belongs
\* to the chat, is pending and has user_id >= threshold; a request whose
\* user_id equals the threshold counts as fresh (it is returned whenever the
\* limit leaves room); the rows returned are the rows of the table as they
\* are.
C12_OnlyPendingFreshOfTheChat ==
    fn_result # NotYet =>
        /\ \A i \in 1..Len(Returned) :
              /\ Returned[i].id \in DOMAIN join_requests
              /\ Eligible(Returned[i].id)
              /\ Returned[i] = row_dict(join_requests[Returned[i].id])
        /\ Len(Returned) < fn_text.limit =>
              \A id \in DOMAIN join_requests :
                  (/\ join_requests[id].chat_id = fn_text.chat_id
                   /\ join_requests[id].status = "pending"
                   /\ join_requests[id].user_id = fn_text.min_user_id) => id \in ReturnedIds

\* C12 witness: the request of the account at the threshold is returned; a
\* request that is not pending, one below the threshold and one of another
\* chat are in the table and are not
C12_Witness ==
    /\ fn_result # NotYet
    /\ \E i \in 1..Len(Returned) : Returned[i].user_id = fn_text.min_user_id
    /\ \E id \in DOMAIN join_requests \ ReturnedIds :
          join_requests[id].user_id < fn_text.min_user_id
    /\ \E id \in DOMAIN join_requests \ ReturnedIds :
          join_requests[id].status # "pending" \/ join_requests[id].chat_id # fn_text.chat_id

\* C13: get_pending_fresh_join_requests returns exactly min(limit, n) of the
\* n eligible requests, each once, in ascending request_date order whatever
\* the user ids, and none it leaves out is earlier than one it returns.
C13_EarliestFirstUpToLimit ==
    fn_result # NotYet =>
        LET n == Cardinality({id \in DOMAIN join_requests : Eligible(id)})
        IN  /\ Len(Returned) = Min(fn_text.limit, n)
            /\ Cardinality(ReturnedIds) = Len(Returned)
            /\ \A id \in ReturnedIds : Eligible(id)
            /\ \A i, j \in 1..Len(Returned) :
                  i < j => Returned[i].request_date <= Returned[j].request_date
            /\ \A id \in DOMAIN join_requests \ ReturnedIds :
                  Eligible(id) =>
                      \A i \in 1..Len(Returned) :
                          Returned[i].request_date <= join_requests[id].request_date

\* C13 witness: requests of 7_100_000_000 (t1), 6_000_000_000 (t2) and
\* 7_200_000_000 (t3), threshold 7_000_000_000, a limit above their number:
\* the answer is the t1 request, then the t3 request
C13_Witness ==
    /\ fn_result # NotYet
    /\ fn_text = [chat_id |-> VibecoderChat, min_user_id |-> FRESH_ACCOUNT_ID_THRESHOLD,
                  limit |-> MaxRows]
    /\ {<<join_requests[id].user_id, join_requests[id].request_date,
          join_requests[id].status, join_requests[id].chat_id>> :
            id \in DOMAIN join_requests}
         = {<<71, 1, "pending", VibecoderChat>>, <<60, 2, "pending", VibecoderChat>>,
            <<72, 3, "pending", VibecoderChat>>}
    /\ Len(Returned) = 2
    /\ Returned[1].user_id = 71 /\ Returned[1].request_date = 1
    /\ Returned[2].user_id = 72 /\ Returned[2].request_date = 3

----------------------------------------------------------------------------
(* save_join_request_fields applied on its own to a table *)

\* save_join_request_fields(user_id, chat_id, username, first_name, bio,
\* request_date, user, chat): save_user, save_chat, the upsert, and the id it
\* returns; the arguments are kept in fn_text, the id in fn_result
save_join_request_fields(user_id, chat_id, profile, request_date) ==
    /\ fn_result = NotYet
    /\ users' = users \cup {user_id}
    /\ chats' = chats \cup {chat_id}
    /\ join_requests' = upsert_join_request(join_requests, seq + 1, user_id, chat_id,
                                            profile, request_date)
    /\ seq' = seq + 1
    /\ fn_text' = [user_id |-> user_id, chat_id |-> chat_id, profile |-> profile,
                   request_date |-> request_date]
    /\ fn_result' = <<upsert_returning(join_requests, seq + 1, user_id, chat_id)>>
    /\ UNCHANGED <<cfg, lock, pc, pending, idx, declined, err_msg, called, wrote, last,
                   log_dir, log_file, passes, conns>>

NextStore ==
    \E pr \in Pairs, pl \in Payloads :
        save_join_request_fields(pr[1], pr[2], pl.profile, pl.date)

SpecStore == InitOnTable /\ [][NextStore]_vars

\* the row the call asked for, as the arguments of the call (in fn_text') and
\* the status pending make it
RowAsked(id) ==
    [id |-> id, user_id |-> fn_text'.user_id, chat_id |-> fn_text'.chat_id,
     username |-> fn_text'.profile.username, first_name |-> fn_text'.profile.first_name,
     bio |-> fn_text'.profile.bio, request_date |-> fn_text'.request_date,
     status |-> "pending"]

\* C16: there is exactly one row per (user_id, chat_id), before and after a
\* call of save_join_request_fields; a call for a pair that has a row
\* overwrites username, first name, bio and request_date, sets the status
\* to pending, keeps and returns the row's id and adds no row; a call for a
\* new pair adds one row with a fresh id and returns it; the rows of every
\* other pair are left as they are.
C16_OneRowPerPairUpsert ==
    /\ [](\A a, b \in DOMAIN join_requests :
            (/\ join_requests[a].user_id = join_requests[b].user_id
             /\ join_requests[a].chat_id = join_requests[b].chat_id) => a = b)
    /\ [][LET hit == {id \in DOMAIN join_requests :
                         /\ join_requests[id].user_id = fn_text'.user_id
                         /\ join_requests[id].chat_id = fn_text'.chat_id}
              ret == fn_result'[1]
          IN  /\ hit # {} => ret \in hit /\ DOMAIN join_requests' = DOMAIN join_requests
              /\ hit = {} => /\ ret \notin DOMAIN join_requests
                             /\ DOMAIN join_requests' = DOMAIN join_requests \cup {ret}
              /\ join_requests'[ret] = RowAsked(ret)
              /\ \A id \in DOMAIN join_requests \ {ret} :
                    join_requests'[id] = join_requests[id]]_vars

\* C16 witness: a call for a pair whose row was declined has returned that
\* row's id; the row is pending with the new request_date, and the table
\* holds another pair's row, which is not pending
C16_Witness ==
    /\ fn_result # NotYet
    /\ fn_result[1] < seq
    /\ join_requests[fn_result[1]].status = "pending"
    /\ join_requests[fn_result[1]].request_date = fn_text.request_date
    /\ Len(join_requests) = seq - 1
    /\ \E id \in DOMAIN join_requests : join_requests[id].status = "declined"

----------------------------------------------------------------------------
(* A process that dies in the middle of a pass *)

\* a table as upserts alone leave it: two requests of fresh accounts wait
\* in the configured chat
TablesOfTwoPending ==
    {t \in Tables :
        /\ Len(t) = 2
        /\ \A id \in DOMAIN t : /\ t[id].status = "pending"
                                /\ t[id].chat_id = VibecoderChat
                                /\ t[id].user_id >= FRESH_ACCOUNT_ID_THRESHOLD}

InitTwoPending ==
    /\ InitOnTable
    /\ join_requests \in TablesOfTwoPending
    /\ cfg.vibecoder_chat_id = VibecoderChat

\* the process that runs p's pass dies (kill, power loss, restart of the
\* container) while the pass waits at an await.  An update that was under
\* way is either committed or not (`committed`); nothing else is written; a
\* restarted service has a new, free lock.
Crash(p, committed) ==
    /\ pc[p] \in PassPcs
    /\ join_requests' =
          IF committed /\ pc[p] \in {"mark_declined", "mark_expired"}
          THEN mark_join_requests_status(join_requests, {pending[p][idx[p]].id},
                   IF pc[p] = "mark_declined" THEN "declined" ELSE "expired")
          ELSE join_requests
    /\ Finish(p, Ended(p, "crashed", 0, 0, 0, 0))
    /\ UNCHANGED <<funVars, cfg, seq, users, chats, log_dir, log_file, passes>>
    /\ conns' = putconn(conns, p)

\* the users of the table ask again
AskAgain ==
    {[user_id |-> u, chat_id |-> VibecoderChat, payload |-> pl] :
        u \in {u \in UserIds : u >= FRESH_ACCOUNT_ID_THRESHOLD},
        pl \in {pl \in Payloads : pl.date = 2}}

\* the answers of the decline call: one for each way the loop body goes on
DeclineResultsByOutcome ==
    {r \in DeclineResults : r.text \in {"", "User_already_participant", "Timed out"}}

\* the passes of the service and of the script, one inbound request
\* (save_join_request_fields, as join_request_handler calls it) at any
\* moment, and the death of a process
NextCrash ==
    \/ clean_join_requests_job("job1")
    \/ clean_requests_main(TRUE)
    \/ \E p \in Procs : Fetch(p, TRUE, TRUE)
    \/ \E p \in Procs, r \in DeclineResultsByOutcome : Decline(p, r)
    \/ \E p \in Procs, store_ok \in BOOLEAN : MarkDeclined(p, store_ok)
    \/ \E p \in Procs, store_ok \in BOOLEAN : MarkExpired(p, store_ok)
    \/ \E a \in AskAgain :
          save_join_request_fields(a.user_id, a.chat_id, a.payload.profile, a.payload.date)
    \/ \E p \in Procs, committed \in BOOLEAN : Crash(p, committed)

SpecCrash == InitTwoPending /\ [][NextCrash]_vars

\* p's pass is inside its loop
Running(p) == pc[p] \in {"decline", "mark_declined", "mark_expired"}

\* the status of row id is the one its last audit line tells
MatchesOutcome(id) ==
    /\ LastOutcome(id) = "declined" => join_requests[id].status = "declined"
    /\ LastOutcome(id) = "expired" => join_requests[id].status = "expired"
    /\ LastOutcome(id) = "error" => join_requests[id].status = "pending"

\* wherever a pass stops: the requests before the current one have the status
\* their outcome tells, the requests after it are pending
StoppedAnywhere(p) ==
    \A i \in 1..Len(pending[p]) :
        /\ i < idx[p] => MatchesOutcome(pending[p][i].id)
        /\ i > idx[p] => join_requests[pending[p][i].id].status = "pending"

Completes(p) ==
    /\ Running(p)
    /\ Appended
    /\ idx'[p] = idx[p] + 1 \/ (pc'[p] = "idle" /\ last'.kind = "returned")

\* the step is the status update of p's pass for its current request, be it
\* followed by the audit line or by the death of the process
UpdateOf(p, id) ==
    /\ pc[p] \in {"mark_declined", "mark_expired"}
    /\ pc'[p] # pc[p]
    /\ Req(p).id = id
    /\ join_requests'[id].status = IF pc[p] = "mark_declined" THEN "declined" ELSE "expired"

\* the inbound request of the behaviour was for row id
AskedAgain(id) == fn_result # NotYet /\ fn_result[1] = id

----------------------------------------------------------------------------
(* The connections of the pool: every store operation of a pass enters      *)
(* `async with get_cursor()`, which takes a connection, runs its statement  *)
(* and leaves the block                                                     *)

\* where a pass waits for a store operation
StorePcs == {"fetch", "mark_declined", "mark_expired"}

\* database.py 47-60, `async with get_cursor() as cur` entered by the store
\* operation p waits for: pool.connection() hands out a connection
EnterCursor(p) ==
    /\ pc[p] \in StorePcs
    /\ conns[p] = 0
    /\ conns' = getconn(conns, p)
    /\ UNCHANGED <<sysVars, funVars>>

\* a statement runs on the connection taken; what raises without one is the
\* failure to get a connection
HasCursor(p, store_ok) == conns[p] = 1 \/ ~store_ok

\* models.py 358-374 inside the block, then handlers.py 146-155
FetchInCursor(p, store_ok, file_ok) ==
    HasCursor(p, store_ok) /\ Fetch(p, store_ok, file_ok)

\* models.py 391-396 inside the block, then handlers.py 167-186
MarkDeclinedInCursor(p, store_ok) ==
    HasCursor(p, store_ok) /\ MarkDeclined(p, store_ok)

\* models.py 391-396 inside the block, then handlers.py 173-186
MarkExpiredInCursor(p, store_ok) ==
    HasCursor(p, store_ok) /\ MarkExpired(p, store_ok)

NextPool ==
    \/ clean_join_requests_job("job1")
    \/ clean_requests_main(TRUE)
    \/ \E p \in Procs : EnterCursor(p)
    \/ \E p \in Procs, store_ok \in BOOLEAN, file_ok \in BOOLEAN :
          FetchInCursor(p, store_ok, file_ok)
    \/ \E p \in Procs, r \in DeclineResultsByOutcome : Decline(p, r)
    \/ \E p \in Procs, store_ok \in BOOLEAN : MarkDeclinedInCursor(p, store_ok)
    \/ \E p \in Procs, store_ok \in BOOLEAN : MarkExpiredInCursor(p, store_ok)

SpecPool == InitTwoPending /\ [][NextPool]_vars

\* a store operation of p's pass is over in this step
StoreOperationEnds(p) == pc[p] \in StorePcs /\ pc'[p] # pc[p]

\* C20: a pass holds no connection of the pool while a decline call of its
\* own is in flight: every store operation of a pass (the fetch and each
\* status update) takes one connection, only while the pass waits for that
\* operation, and has given it back when the operation is over, before the
\* next decline call is issued; a statement that has read or written the
\* table ran on a connection taken for it.
C20_NoConnectionAcrossDecline ==
    /\ [](\A p \in Procs :
             /\ conns[p] \in {0, 1}
             /\ pc[p] \notin StorePcs => conns[p] = 0)
    /\ [][\A p \in Procs :
             /\ conns'[p] > conns[p] => pc[p] \in StorePcs /\ pc'[p] = pc[p]
             /\ StoreOperationEnds(p) =>
                   /\ conns'[p] = 0
                   /\ join_requests' # join_requests => conns[p] = 1
                   /\ pc[p] = "fetch" /\ pc'[p] = "decline" => conns[p] = 1]_vars

\* C20 witness: the pass of one process waits for its second decline call,
\* the first request marked declined, and holds no connection, while the
\* pass of another process holds one for its update
C20_Witness ==
    \E p, q \in Procs :
        /\ pc[p] = "decline"
        /\ idx[p] = 2
        /\ join_requests[pending[p][1].id].status = "declined"
        /\ conns[p] = 0
        /\ pc[q] = "mark_declined"
        /\ conns[q] = 1

----------------------------------------------------------------------------
(* join_request_handler applied on its own to one update *)

\* every update the dispatcher can hand over, a join request or not, for
\* either chat
AnyUpdates ==
    {u \in [chat_join_request : BOOLEAN, chat_id : ChatIds, user_id : UserIds,
            profile : Profiles, date : RequestDates] :
        [profile |-> u.profile, date |-> u.date] \in Payloads}

\* the update is kept in fn_text; the table leaves room for one more id
InitHandler ==
    /\ cfg \in [vibecoder_chat_id : {NoChat, VibecoderChat},
                join_request_clean_batch_limit : 1..MaxLimit]
    /\ join_requests \in {t \in Tables : Len(t) < MaxSeq}
    /\ seq = Len(join_requests)
    /\ users = {join_requests[id].user_id : id \in DOMAIN join_requests}
    /\ chats = {join_requests[id].chat_id : id \in DOMAIN join_requests}
    /\ lock = FALSE
    /\ pc = [p \in Procs |-> "idle"]
    /\ pending = [p \in Procs |-> <<>>]
    /\ idx = [p \in Procs |-> 0]
    /\ declined = [p \in Procs |-> 0]
    /\ err_msg = [p \in Procs |-> <<>>]
    /\ called = [p \in Procs |-> <<>>]
    /\ wrote = [p \in Procs |-> 0]
    /\ last = NoEnd
    /\ log_dir = FALSE
    /\ log_file = [exists |-> FALSE, lines |-> <<>>]
    /\ passes = 0
    /\ conns = NoConns
    /\ fn_text \in AnyUpdates
    /\ fn_result = NotYet

\* one call of join_request_handler(update, context); it returns None
HandleUpdate(store_ok) ==
    /\ fn_result = NotYet
    /\ handler_saves(fn_text, store_ok)
    /\ fn_result' = <<None>>
    /\ UNCHANGED <<fn_text, conns, cfg, lock, pc, pending, idx, declined, err_msg, called,
                   wrote, last, log_dir, log_file, passes>>

NextHandler == \E store_ok \in BOOLEAN : HandleUpdate(store_ok)

SpecHandler == InitHandler /\ [][NextHandler]_vars

\* the store as the handler can change it
StoreTables == <<users, chats, join_requests, seq>>

\* C21: join_request_handler changes the store only for a join request whose
\* chat id equals the configured chat id: for an update without a join
\* request, with no chat id configured, or with a request for another chat,
\* the call writes no user, chat or join-request row; and what a call writes
\* is the user, the chat and the row of the request's (user, chat) pair, every
\* other row staying as it was.
C21_HandlerWritesOnlyConfiguredChat ==
    [][fn_result' # fn_result =>
          /\ \/ ~fn_text.chat_join_request
             \/ cfg.vibecoder_chat_id = NoChat
             \/ fn_text.chat_id # cfg.vibecoder_chat_id
             => UNCHANGED StoreTables
          /\ StoreTables' # StoreTables =>
                /\ fn_text.chat_join_request
                /\ fn_text.chat_id = cfg.vibecoder_chat_id
                /\ users' \subseteq users \cup {fn_text.user_id}
                /\ chats' \subseteq chats \cup {cfg.vibecoder_chat_id}
                /\ Len(join_requests') \in {Len(join_requests), Len(join_requests) + 1}
                /\ \A id \in DOMAIN join_requests' :
                      \/ id \in DOMAIN join_requests /\ join_requests'[id] = join_requests[id]
                      \/ /\ join_requests'[id].user_id = fn_text.user_id
                         /\ join_requests'[id].chat_id = cfg.vibecoder_chat_id]_vars

\* C21 witness: the handler has returned from a join request of a new user
\* for the chat that is not the configured one, the store answering
C21_Witness ==
    /\ fn_result = <<None>>
    /\ fn_text.chat_join_request
    /\ cfg.vibecoder_chat_id = VibecoderChat
    /\ fn_text.chat_id = OtherChat
    /\ fn_text.user_id \notin users
    /\ join_requests # <<>>

----------------------------------------------------------------------------
(* get_dashboard_data applied to what its query returns *)

MaxChats == 3

\* an Optional value: <<>> is None, <<v>> is v
Nothing == <<>>
Some(v) == <<v>>

\* json.loads on the texts the column can hold: the value of a valid text;
\* the text outside the domain is not JSON and raises JSONDecodeError
JsonValues ==
    [t \in {"[]", "[{\"name\": \"al\", \"count\": 2}]"} |->
        IF t = "[]" THEN <<>> ELSE <<[name |-> "al", count |-> 2]>>]
JsonTexts == DOMAIN JsonValues \cup {"[{\"name\": "}

\* row[7] as psycopg hands it over: a list, a str, or None
TopUsersRaw ==
    {[kind |-> "list", list |-> l, text |-> ""] :
        l \in {<<>>, <<[name |-> "al", count |-> 2], [name |-> "Bo", count |-> 1]>>}}
    \cup {[kind |-> "str", list |-> <<>>, text |-> t] : t \in JsonTexts}
    \cup {[kind |-> "none", list |-> <<>>, text |-> ""]}

\* row[4..6]: the last message with a text, all three NULL for a chat without
LastMessages ==
    {[text |-> Nothing, author |-> Nothing, sent_at |-> Nothing],
     [text |-> Some("Hello"), author |-> Some("al"), sent_at |-> Some(2)]}

\* the rows of the query: one per chat (GROUP BY c.id), in the order the
\* statement gives them
DashboardRows(id) ==
    {[id |-> id, title |-> IF id = 1 THEN "Chat 1" ELSE IF id = 2 THEN "Chat 2" ELSE "Chat 3",
      total_messages |-> 4 - id, today_messages |-> IF id = 1 THEN 1 ELSE 0,
      last_message |-> lm, top_users |-> tu] :
        lm \in LastMessages, tu \in TopUsersRaw}
DashboardResults ==
    UNION {{rs \in [1..k -> UNION {DashboardRows(id) : id \in 1..MaxChats}] :
               \A i, j \in 1..k : i < j => rs[i].id < rs[j].id} : k \in 0..MaxChats}

\* mutant: the str is not parsed
top_users_unparsed(raw) ==
    IF raw.kind = "none" THEN <<>>
    ELSE IF raw.kind = "str" THEN <<raw.text>>
    ELSE raw.list

\* models.py 833-840: top_users from row[7]
top_users_of(raw) ==
    IF raw.kind = "str"
    THEN (IF raw.text \in DOMAIN JsonValues THEN JsonValues[raw.text] ELSE <<>>)
    ELSE IF raw.kind = "none" THEN <<>>
    ELSE raw.list

\* models.py 842-851: DashboardChat(...) of a row
DashboardChat(row) ==
    [id |-> row.id, title |-> row.title, total_messages |-> row.total_messages,
     today_messages |-> row.today_messages,
     last_message_text |-> row.last_message.text,
     last_message_author |-> row.last_message.author,
     last_message_at |-> row.last_message.sent_at,
     top_users |-> top_users_of(row.top_users)]

\* the rows fetchall() will return are kept in fn_text
InitDashboard ==
    /\ InitSystem
    /\ fn_text \in DashboardResults
    /\ fn_result = NotYet

\* get_dashboard_data(): one cur.execute, one fetchall, one DashboardChat
\* appended per row; executes counts the calls of cur.execute
get_dashboard_data ==
    /\ fn_result = NotYet
    /\ fn_result' = <<[executes |-> 1,
                       result |-> [i \in 1..Len(fn_text) |-> DashboardChat(fn_text[i])]]>>
    /\ UNCHANGED <<sysVars, fn_text, conns>>

SpecDashboard == InitDashboard /\ [][get_dashboard_data]_vars

\* the row has no top users: an empty list, None, or the text of an empty list
HasNoTopUsers(row) ==
    \/ row.top_users.kind = "none"
    \/ row.top_users.kind = "list" /\ row.top_users.list = <<>>
    \/ row.top_users.kind = "str" /\ row.top_users.text = "[]"

\* C22: get_dashboard_data issues exactly one query whatever the number of
\* chats, and returns one DashboardChat per returned row, in row order: the
\* id, title and counts of the row, top_users an empty list and the
\* last-message fields None for a row that has none, the list of the row
\* (parsed when it comes as text) and the last message otherwise.
C22_OneQueryOneChatPerRow ==
    fn_result # NotYet =>
        LET out == fn_result[1]
        IN  /\ out.executes = 1
            /\ Len(out.result) = Len(fn_text)
            /\ \A i \in 1..Len(fn_text) :
                  LET row == fn_text[i]
                      chat == out.result[i]
                  IN  /\ chat.id = row.id
                      /\ chat.title = row.title
                      /\ chat.total_messages = row.total_messages
                      /\ chat.today_messages = row.today_messages
                      /\ chat.last_message_text = row.last_message.text
                      /\ chat.last_message_author = row.last_message.author
                      /\ chat.last_message_at = row.last_message.sent_at
                      /\ HasNoTopUsers(row) => chat.top_users = <<>>
                      /\ row.top_users.kind = "list" => chat.top_users = row.top_users.list
                      /\ \A n \in 1..Len(chat.top_users) :
                            chat.top_users[n] \in [name : {"al", "Bo"}, count : {1, 2}]

\* C22 witness: three rows returned; a chat without last message and top
\* users after one with both, its list coming as text
C22_Witness ==
    /\ fn_result # NotYet
    /\ Len(fn_text) = MaxChats
    /\ fn_result[1].executes = 1
    /\ fn_text[1].top_users.kind = "str"
    /\ Len(fn_result[1].result[1].top_users) = 1
    /\ fn_result[1].result[1].last_message_text = Some("Hello")
    /\ fn_text[3].top_users.kind = "none"
    /\ fn_result[1].result[3].top_users = <<>>
    /\ fn_result[1].result[3].last_message_text = Nothing

----------------------------------------------------------------------------
(* mark_join_requests_status applied on its own to a table *)

\* the id lists: empty, with an id twice, with an id no row has
MaxIds == 2
IdLists == UNION {[1..k -> 1..(MaxRows + 1)] : k \in 0..MaxIds}

\* one call of mark_join_requests_status(ids, status): the arguments are kept
\* in fn_text, the count returned in fn_result
mark_status_call(ids, status) ==
    /\ fn_result = NotYet
    /\ join_requests' = mark_join_requests_status(join_requests, Range(ids), status)
    /\ fn_text' = [ids |-> ids, status |-> status]
    /\ fn_result' = <<mark_rowcount(join_requests, Range(ids))>>
    /\ UNCHANGED <<cfg, seq, users, chats, lock, pc, pending, idx, declined, err_msg, called,
                   wrote, last, log_dir, log_file, passes, conns>>

NextMark == \E ids \in IdLists, status \in Statuses : mark_status_call(ids, status)

SpecMark == InitOnTable /\ [][NextMark]_vars

\* C24: mark_join_requests_status(ids, status) with an empty id list returns
\* 0 and leaves the table as it is; with a non-empty list it sets the status
\* of every row whose id is in the list, whatever the status of that row
\* before, changes nothing else of such a row and nothing of any other row,
\* adds and removes no row, and returns the number of rows whose id is in
\* the list.
C24_MarkSetsListedRows ==
    [][fn_result' # fn_result =>
          LET ids == fn_text'.ids
              listed == {id \in DOMAIN join_requests : \E i \in 1..Len(ids) : ids[i] = id}
          IN  /\ DOMAIN join_requests' = DOMAIN join_requests
              /\ ids = <<>> => fn_result' = <<0>> /\ join_requests' = join_requests
              /\ \A id \in listed :
                    join_requests'[id] = [join_requests[id] EXCEPT !.status = fn_text'.status]
              /\ \A id \in DOMAIN join_requests \ listed :
                    join_requests'[id] = join_requests[id]
              /\ fn_result' = <<Cardinality(listed)>>]_vars

\* C24 witness: a call with the status pending and two ids, one id twice or
\* with an id of no row, has returned 1; its row is pending, another is expired
C24_Witness ==
    /\ fn_result = <<1>>
    /\ fn_text.status = "pending"
    /\ Len(fn_text.ids) = 2
    /\ \E id \in DOMAIN join_requests :
          /\ fn_text.ids \in {<<id, id>>, <<id, MaxRows + 1>>}
          /\ join_requests[id].status = "pending"
    /\ \E id \in DOMAIN join_requests : join_requests[id].status = "expired"

----------------------------------------------------------------------------
(* Passes over a table of earlier runs: requests of both chats, of accounts *)
(* below and above the threshold, in every status                           *)

NextOnTable ==
    \/ clean_join_requests_job("job1")
    \/ clean_requests_main(TRUE)
    \/ \E p \in Procs : Fetch(p, TRUE, TRUE)
    \/ \E p \in Procs, r \in DeclineResultsByOutcome : Decline(p, r)
    \/ \E p \in Procs, store_ok \in BOOLEAN : MarkDeclined(p, store_ok)
    \/ \E p \in Procs, store_ok \in BOOLEAN : MarkExpired(p, store_ok)

SpecOnTable == InitOnTable /\ [][NextOnTable]_vars

\* a pass takes a step
PassSteps == \E p \in Procs : InPass(p) /\ (pc'[p] # pc[p] \/ idx'[p] # idx[p])

\* the rows a step changes
RowsChanged == {id \in DOMAIN join_requests : join_requests'[id] # join_requests[id]}

\* C25: a pass changes nothing of a join request except the status of
\* requests it fetched: its fetch returns at most `limit` requests, each at
\* that moment pending, of the configured chat and with user_id at or above
\* the threshold; a step of a pass adds and removes no row and changes at
\* most the request the pass stands at, of that request only the status, and
\* to declined or expired, never to pending; so requests of other chats,
\* below the threshold, beyond the limit or not pending at the fetch keep
\* their status and every request keeps its metadata.
C25_PassWritesOnlyStatusOfFetched ==
    [][/\ \A p \in Procs :
             pc[p] = "fetch" /\ pc'[p] = "decline" =>
                 /\ Len(pending'[p]) <= cfg.join_request_clean_batch_limit
                 /\ \A i \in 1..Len(pending'[p]) :
                       LET row == join_requests[pending'[p][i].id]
                       IN  /\ row.status = "pending"
                           /\ row.chat_id = cfg.vibecoder_chat_id
                           /\ row.user_id >= FRESH_ACCOUNT_ID_THRESHOLD
                           /\ pending'[p][i].user_id = row.user_id
       /\ PassSteps =>
             /\ DOMAIN join_requests' = DOMAIN join_requests
             /\ \A id \in RowsChanged :
                   /\ \E p \in Procs :
                         /\ pc[p] \in {"mark_declined", "mark_expired"}
                         /\ pc'[p] # pc[p]
                         /\ id = Req(p).id
                   /\ join_requests'[id] =
                         [join_requests[id] EXCEPT !.status = join_requests'[id].status]
                   /\ join_requests'[id].status \in {"declined", "expired"}
                   /\ join_requests[id].chat_id = cfg.vibecoder_chat_id
                   /\ join_requests[id].user_id >= FRESH_ACCOUNT_ID_THRESHOLD]_vars

\* C25 witness: a pass with limit 1 has declined the one request it fetched;
\* the table holds besides it a pending request of the other chat, and a
\* pending request of the chat that the pass left as it was
C25_Witness ==
    /\ last.kind = "returned"
    /\ last.processed = 1
    /\ last.declined = 1
    /\ cfg.join_request_clean_batch_limit = 1
    /\ passes = 1
    /\ \A p \in Procs : pc[p] = "idle"
    /\ \E a, b, c \in DOMAIN join_requests :
          /\ join_requests[a].status = "declined"
          /\ join_requests[b].status = "pending" /\ join_requests[b].chat_id = OtherChat
          /\ join_requests[c].status = "pending"
          /\ join_requests[c].chat_id = cfg.vibecoder_chat_id

----------------------------------------------------------------------------
(* The audit line as it is written: the f-string of the loop body and       *)
(* _append_log_line, character by character                                 *)

MaxText == 3

\* the characters of the texts: a letter, a blank, and the three the claim names
TextChars == {"a", " ", "\t", "\n", "\r"}

\* the texts of at most n characters
TextsUpTo(n) == UNION {[1..k -> TextChars] : k \in 0..n}

\* str(n) of an int
RECURSIVE Digits(_)
Digits(n) ==
    LET d == <<"0", "1", "2", "3", "4", "5", "6", "7", "8", "9">>
    IN  IF n < 10 THEN <<d[n + 1]>> ELSE Digits(n \div 10) \o <<d[(n % 10) + 1]>>
Str(n) == IF n < 0 THEN <<"-">> \o Digits(0 - n) ELSE Digits(n)

\* datetime.now(timezone.utc).isoformat(), for one moment
IsoStamp ==
    <<"2", "0", "2", "6", "-", "0", "1", "-", "0", "2", "T", "0", "3", ":", "0", "4", ":",
      "0", "5", "+", "0", "0", ":", "0", "0">>

\* the names of the fields, as the f-string spells them
FieldNames ==
    [request_id |-> <<"r", "e", "q", "u", "e", "s", "t", "_", "i", "d", "=">>,
     chat_id |-> <<"c", "h", "a", "t", "_", "i", "d", "=">>,
     user_id |-> <<"u", "s", "e", "r", "_", "i", "d", "=">>,
     username |-> <<"u", "s", "e", "r", "n", "a", "m", "e", "=">>,
     first_name |-> <<"f", "i", "r", "s", "t", "_", "n", "a", "m", "e", "=">>,
     message |-> <<"m", "e", "s", "s", "a", "g", "e", "=">>]
OutcomeChars ==
    [o \in {"declined", "expired", "error"} |->
        IF o = "declined" THEN <<"d", "e", "c", "l", "i", "n", "e", "d">>
        ELSE IF o = "expired" THEN <<"e", "x", "p", "i", "r", "e", "d">>
        ELSE <<"e", "r", "r", "o", "r">>]

\* lines 180-184: the f-string, of the fields of a line
line_text(l) ==
    IsoStamp \o <<"\t">> \o OutcomeChars[l.outcome] \o <<"\t">>
    \o FieldNames.request_id \o Str(l.request_id) \o <<"\t">>
    \o FieldNames.chat_id \o Str(l.chat_id) \o <<"\t">>
    \o FieldNames.user_id \o Str(l.user_id) \o <<"\t">>
    \o FieldNames.username \o l.username \o <<"\t">>
    \o FieldNames.first_name \o l.first_name \o <<"\t">>
    \o FieldNames.message \o l.message

\* _append_log_line(fp, line): what fp.write receives
written(line) == line \o <<"\n">>

\* the request of the iteration and how its try statement ended: no
\* exception, or an exception of a type with a text
LineInputs ==
    [req : [id : {7, 12}, user_id : {FRESH_ACCOUNT_ID_THRESHOLD},
            username : TextsUpTo(1) \cup {NoText},
            first_name : TextsUpTo(MaxText) \cup {NoText}],
     chat_id : {0 - 100},
     raised : {<<>>} \cup {<<[type |-> "BadRequest", text |-> t]>> : t \in TextsUpTo(1)}]

\* the request and the exception are kept in fn_text
InitLine ==
    /\ InitSystem
    /\ cfg.join_request_clean_batch_limit = 1
    /\ fn_text \in LineInputs
    /\ fn_result = NotYet

\* lines 162-185 for one request: outcome and err_msg as the try statement
\* leaves them, the line, and what is written to the file
WriteLine ==
    LET e == fn_text.raised
        outcome == IF e = <<>> THEN "declined" ELSE "error"
        msg == IF e = <<>> THEN <<>> ELSE Chars[e[1].type] \o <<":", " ">> \o e[1].text
    IN  /\ fn_result = NotYet
        /\ fn_result' = <<written(line_text(audit_line(outcome, fn_text.req,
                                                      fn_text.chat_id, msg)))>>
        /\ UNCHANGED <<sysVars, fn_text, conns>>

SpecLine == InitLine /\ [][WriteLine]_vars

\* how often character c stands in text t
Count(t, c) == Cardinality({i \in 1..Len(t) : t[i] = c})

\* the line is one record of eight tab-separated fields
OneRecordOfEightFields(w) ==
    /\ w[Len(w)] = "\n"
    /\ \A i \in 1..(Len(w) - 1) : w[i] \notin {"\n", "\r"}
    /\ Count(w, "\t") = 7

\* C26 as stated: every audit line is a single record of exactly eight
\* tab-separated fields, for every username, first name and error text,
\* including ones that contain newline, carriage-return or tab characters:
\* no line break before the terminating newline and no extra field separator.
C26_Original ==
    fn_result # NotYet => OneRecordOfEightFields(fn_result[1])

----------------------------------------------------------------------------
(* An inbound join request while a pass waits for its status update: the    *)
(* decline call of the user has answered, the update has not run yet        *)

\* the pass of p stands between the decline call of user_id and the update
AwaitsUpdateFor(p, user_id) ==
    /\ pc[p] \in {"mark_declined", "mark_expired"}
    /\ Req(p).user_id = user_id

\* join_request_handler saves a new request of a user at that moment
InboundDuringUpdate(a) ==
    /\ \E p \in Procs : AwaitsUpdateFor(p, a.user_id)
    /\ save_join_request_fields(a.user_id, a.chat_id, a.payload.profile, a.payload.date)

NextInbound ==
    \/ clean_join_requests_job("job1")
    \/ \E p \in Procs : Fetch(p, TRUE, TRUE)
    \/ \E p \in Procs, r \in DeclineResultsByOutcome : Decline(p, r)
    \/ \E p \in Procs, store_ok \in BOOLEAN : MarkDeclined(p, store_ok)
    \/ \E p \in Procs, store_ok \in BOOLEAN : MarkExpired(p, store_ok)
    \/ \E a \in AskAgain : InboundDuringUpdate(a)

SpecInbound == InitTwoPending /\ [][NextInbound]_vars

\* C28 as stated: an inbound join request is never lost to a running pass:
\* when save_join_request_fields resets a row to pending after the decline
\* call of the pass for that user has completed and before the pass writes
\* the status of that request, the row is still pending once the pass has
\* written it, and so when the pass ends.
C28_Original ==
    [][\A p \in Procs :
          /\ pc[p] \in {"mark_declined", "mark_expired"}
          /\ pc'[p] # pc[p]
          /\ AskedAgain(Req(p).id)
          => join_requests'[Req(p).id].status = "pending"]_vars

----------------------------------------------------------------------------
(* Passes that go on: every await of a pass is answered, by a result or by  *)
(* an exception (the store, the file system and the decline call all come   *)
(* back; the event loop resumes the coroutine that waits)                   *)

\* the service on a table of two pending requests, the chat id set or not
InitLive ==
    /\ InitOnTable
    /\ join_requests \in TablesOfTwoPending

\* ticks of the job and the passes they start; the store, the file system
\* and the decline call answer in every way
NextLive ==
    \/ \E j \in Jobs : clean_join_requests_job(j)
    \/ \E p \in Procs, store_ok \in BOOLEAN, file_ok \in BOOLEAN :
          Fetch(p, store_ok, file_ok)
    \/ \E p \in Procs, r \in DeclineResultsByOutcome : Decline(p, r)
    \/ \E p \in Procs, store_ok \in BOOLEAN : MarkDeclined(p, store_ok)
    \/ \E p \in Procs, store_ok \in BOOLEAN : MarkExpired(p, store_ok)

\* the pass of p goes on from the await it stands at
PassStep(p) ==
    \/ \E store_ok \in BOOLEAN, file_ok \in BOOLEAN : Fetch(p, store_ok, file_ok)
    \/ \E r \in DeclineResultsByOutcome : Decline(p, r)
    \/ \E store_ok \in BOOLEAN : MarkDeclined(p, store_ok)
    \/ \E store_ok \in BOOLEAN : MarkExpired(p, store_ok)

SpecLive == InitLive /\ [][NextLive]_vars /\ \A j \in Jobs : WF_vars(PassStep(j))

\* a tick of job j that goes on to the pass
TickStartsPass(j) == pc[j] = "idle" /\ pc'[j] = "fetch"

\* C29: every pass started by clean_join_requests_job eventually ends, and
\* the step that ends it gives the lock back, whether the pass returns or is
\* aborted by an exception of the store or of the file system; a tick that
\* finds no chat id configured returns with the lock free; the lock is held
\* only while a pass of the job is in flight, so a tick after an ended pass
\* finds it free and is not locked out.
C29_PassEndsAndReleasesLock ==
    /\ [](lock <=> \E j \in Jobs : InPass(j))
    /\ [][\A j \in Jobs :
             /\ InPass(j) /\ pc'[j] = "idle" => ~lock' /\ last'.proc = j
             /\ TickStartsPass(j) => ~lock /\ lock' /\ cfg.vibecoder_chat_id # NoChat
             /\ last' # last /\ last'.kind = "no_chat" /\ last'.proc = j
                => ~lock' /\ pc'[j] = "idle"]_vars
    /\ \A j \in Jobs : InPass(j) ~> (pc[j] = "idle" /\ ~lock)

\* C29 witness: a pass of the job was aborted by an exception, and a later
\* tick has taken the lock and runs a new pass
C29_Witness ==
    /\ last.kind \in {"raised_store", "raised_os"}
    /\ last.proc \in Jobs
    /\ passes = 2
    /\ lock
    /\ \E j \in Jobs : pc[j] = "decline"

----------------------------------------------------------------------------
(* A backlog: ticks keep coming, no request comes in, the store and the     *)
(* file answer, and the decline call answers each user the same way every   *)
(* time                                                                     *)

\* the user whose decline call keeps failing with an error that is not recognized
FailingUser == 70

\* what the decline call answers for a user
AnswerFor(user_id) ==
    IF user_id = FailingUser
    THEN [kind |-> "TelegramError", type |-> "TimedOut", text |-> "Timed out"]
    ELSE [kind |-> "ok", type |-> "", text |-> ""]

\* the decline call of p's current request answers
DeclineAnswersUser(p) ==
    /\ pc[p] = "decline"
    /\ Decline(p, AnswerFor(Req(p).user_id))

InitBacklog ==
    /\ InitOnTable
    /\ cfg.vibecoder_chat_id = VibecoderChat

NextBacklog ==
    \/ clean_join_requests_job("job1")
    \/ Fetch("job1", TRUE, TRUE)
    \/ DeclineAnswersUser("job1")
    \/ MarkDeclined("job1", TRUE)

\* ticks are scheduled fairly, and every await of a pass is answered
SpecBacklog ==
    /\ InitBacklog
    /\ [][NextBacklog]_vars
    /\ WF_vars(clean_join_requests_job("job1"))
    /\ WF_vars(Fetch("job1", TRUE, TRUE))
    /\ WF_vars(DeclineAnswersUser("job1"))
    /\ WF_vars(MarkDeclined("job1", TRUE))

\* request id is pending, of the chat and fresh, and its decline call would succeed
PendingFreshDeclinable(id) ==
    /\ id \in DOMAIN join_requests
    /\ join_requests[id].status = "pending"
    /\ join_requests[id].chat_id = cfg.vibecoder_chat_id
    /\ join_requests[id].user_id >= FRESH_ACCOUNT_ID_THRESHOLD
    /\ AnswerFor(join_requests[id].user_id).kind = "ok"

\* the pending fresh requests of the chat: what the query of a pass selects from
Backlog ==
    {id \in DOMAIN join_requests :
        /\ join_requests[id].status = "pending"
        /\ join_requests[id].chat_id = cfg.vibecoder_chat_id
        /\ join_requests[id].user_id >= FRESH_ACCOUNT_ID_THRESHOLD}

\* no pass is in flight, and the ticks still to come are at least as many as
\* the requests of the backlog: passes that took the backlog one request at
\* a time would reach every request of it
TicksCoverBacklog ==
    /\ pc["job1"] = "idle"
    /\ Cardinality(Backlog) <= MaxPasses - passes

====
